---- MODULE Spec2Model ----
(***************************************************************************)
(* A model of the turn-based world simulator: the data model               *)
(* (app/models.py), the deterministic and the reasoning-backed arbitrator  *)
(* (app/arbitrator.py), the turn log (app/db.py) and the simulation engine *)
(* (app/engine.py).                                                        *)
(*                                                                         *)
(* Representation.                                                         *)
(*   - A Python None is NoneVal where a mapping is expected and the string *)
(*     "None" where an id is expected.                                     *)
(*   - An attribute map (Dict[str, Any]) is a function whose domain is the *)
(*     set of keys present; <<>> is the empty map.                         *)
(*   - An event tag f"{agent}_took_{item}" is the tuple                    *)
(*     <<agent, "took", item>>; a constant tag "x" is <<"x">>.             *)
(*   - A narrative is the sequence of its lines (the code joins them with  *)
(*     a blank); a line is a tuple of its template and of the names it     *)
(*     interpolates.  A message or a reason of a payload is a tuple too.   *)
(***************************************************************************)
EXTENDS Integers, Sequences, FiniteSets, TLC

(***************************************************************************)
(* Bounds of the model.                                                    *)
(***************************************************************************)
\* Longest action list handed to the arbitrator in the arbitrator-only runs.
MaxActions == 3

(***************************************************************************)
(* Data model (app/models.py).                                             *)
(***************************************************************************)
NoneVal == [none |-> TRUE]
NoTarget == "None"

Entity(id, name, type, attributes, driver) ==
  [id |-> id, name |-> name, type |-> type, attributes |-> attributes,
   driver |-> driver]

Environment == [temperature |-> 22, light_level |-> 100, description |-> ""]

WorldState(entities) ==
  [room_id |-> "sala", turn_mode |-> "simultaneous",
   agent_timeout_seconds |-> 60, environment |-> Environment,
   entities |-> entities]

AgentAction(agent_id, action_type, target_id, payload) ==
  [agent_id |-> agent_id, action_type |-> action_type,
   target_id |-> target_id, payload |-> payload]

WorldChange(action, entity_id, attribute, value_previous, value_new) ==
  [action |-> action, entity_id |-> entity_id, attribute |-> attribute,
   value_previous |-> value_previous, value_new |-> value_new]

TurnResult(turn_id, simulation_id, narrative, changes, events, world_state) ==
  [turn_id |-> turn_id, simulation_id |-> simulation_id,
   narrative |-> narrative, changes |-> changes, events |-> events,
   world_state |-> world_state]

(***************************************************************************)
(* Sequence helpers standing for Python's list and dict idioms.            *)
(***************************************************************************)
Range(seq) == {seq[i] : i \in 1..Len(seq)}

\* Index of the first element of entities whose id is id, 0 when there is
\* none: next((e for e in state.entities if e.id == id), None).
FirstIndex(entities, id) ==
  IF \E i \in 1..Len(entities) : entities[i].id = id
  THEN CHOOSE i \in 1..Len(entities) :
         /\ entities[i].id = id
         /\ \A j \in 1..(i - 1) : entities[j].id # id
  ELSE 0

\* Index of the last element with that id, 0 when there is none: the entry
\* the dict comprehension {e.id: e for e in state.entities} keeps.
LastIndex(entities, id) ==
  IF \E i \in 1..Len(entities) : entities[i].id = id
  THEN CHOOSE i \in 1..Len(entities) :
         /\ entities[i].id = id
         /\ \A j \in (i + 1)..Len(entities) : entities[j].id # id
  ELSE 0

\* next((e.name for e in state.entities if e.id == agent_id), agent_id)
AgentName(state, agent_id) ==
  LET i == FirstIndex(state.entities, agent_id)
  IN  IF i = 0 THEN agent_id ELSE state.entities[i].name

\* The keys of a dict filled in the order of seq: each value once, at the
\* place of its first occurrence.
RECURSIVE FirstOccurrences(_, _)
FirstOccurrences(seq, seen) ==
  IF seq = <<>> THEN <<>>
  ELSE IF Head(seq) \in seen
       THEN FirstOccurrences(Tail(seq), seen)
       ELSE <<Head(seq)>> \o FirstOccurrences(Tail(seq), seen \cup {Head(seq)})

(***************************************************************************)
(* MockArbitrator (app/arbitrator.py).                                     *)
(***************************************************************************)
\* The first loop of resolve_turn: one narrative line per TALK and per WAIT.
RECURSIVE ActionLines(_, _)
ActionLines(state, actions) ==
  IF actions = <<>> THEN <<>>
  ELSE LET action == Head(actions)
           agent_name == AgentName(state, action.agent_id)
           msg == IF "message" \in DOMAIN action.payload
                  THEN action.payload.message ELSE <<"...">>
           line == IF action.action_type = "TALK"
                     THEN << <<"grita", agent_name, msg>> >>
                   ELSE IF action.action_type = "WAIT"
                     THEN << <<"mira", agent_name>> >>
                   ELSE <<>>
       IN  line \o ActionLines(state, Tail(actions))

\* take_requests: item id -> the agents asking for it, in the order of the
\* actions; keys in the order of insertion.
TakeActions(actions) == SelectSeq(actions, LAMBDA a : a.action_type = "TAKE")

TakeKeys(actions) ==
  LET takes == TakeActions(actions)
  IN  FirstOccurrences([i \in 1..Len(takes) |-> takes[i].target_id], {})

TakeAgents(actions, item_id) ==
  LET mine == SelectSeq(TakeActions(actions), LAMBDA a : a.target_id = item_id)
  IN  [i \in 1..Len(mine) |-> mine[i].agent_id]

\* _apply_take_success that forgets the DELETE change: the item stays in the
\* world.
apply_take_success_KeepsItem(agent_id, agent_name, item, acc) ==
  LET idx == FirstIndex(acc.state.entities, agent_id)
      agent == acc.state.entities[idx]
      has == "inventario" \in DOMAIN agent.attributes
      inventory == IF has THEN Append(agent.attributes.inventario, item.id)
                   ELSE <<item.id>>
      new_attrs == [k \in (DOMAIN agent.attributes) \cup {"inventario"} |->
                      IF k = "inventario" THEN inventory ELSE agent.attributes[k]]
      upd == [change |-> [action |-> "UPDATE", entity_id |-> agent_id,
                          attribute |-> "attributes",
                          value_previous |-> agent.attributes,
                          value_new |-> new_attrs],
              alias |-> IF has THEN idx ELSE 0]
  IN  [state |-> IF idx # 0 /\ has
                 THEN [acc.state EXCEPT !.entities[idx].attributes.inventario = inventory]
                 ELSE acc.state,
       changes |-> IF idx = 0 THEN acc.changes ELSE Append(acc.changes, upd),
       narrative |-> Append(acc.narrative, <<"toma", agent_name, item.name>>),
       events |-> Append(acc.events, <<agent_id, "took", item.id>>)]

\* _apply_take_success on the accumulators acc = [state, changes, narrative,
\* events].  acc.state is the input state object as it is by now: the
\* inventory list of an agent that already holds one is appended to in place
\* (attributes.copy() is shallow), and both maps of the UPDATE change keep
\* pointing at that list.  alias is the index of the entity whose own
\* attribute map and inventory list the change points at, 0 for a change
\* that owns its values.
apply_take_success(agent_id, agent_name, item, acc) ==
  LET del == [change |-> WorldChange("DELETE", item.id, "None", NoneVal, NoneVal),
              alias |-> 0]
      idx == FirstIndex(acc.state.entities, agent_id)
      agent == acc.state.entities[idx]
      has == "inventario" \in DOMAIN agent.attributes
      inventory == IF has THEN Append(agent.attributes.inventario, item.id)
                   ELSE <<item.id>>
      new_attrs == [k \in (DOMAIN agent.attributes) \cup {"inventario"} |->
                      IF k = "inventario" THEN inventory ELSE agent.attributes[k]]
      upd == [change |-> WorldChange("UPDATE", agent_id, "attributes",
                                     agent.attributes, new_attrs),
              alias |-> IF has THEN idx ELSE 0]
      state1 == IF idx # 0 /\ has
                THEN [acc.state EXCEPT !.entities[idx].attributes.inventario = inventory]
                ELSE acc.state
  IN  [state |-> state1,
       changes |-> IF idx = 0 THEN Append(acc.changes, del)
                   ELSE acc.changes \o <<del, upd>>,
       narrative |-> Append(acc.narrative, <<"toma", agent_name, item.name>>),
       events |-> Append(acc.events, <<agent_id, "took", item.id>>)]

\* The success steps for every agent of the list, one after the other.
RECURSIVE TakeForEach(_, _, _)
TakeForEach(agents, item, acc) ==
  IF agents = <<>> THEN acc
  ELSE TakeForEach(Tail(agents), item,
                   apply_take_success(Head(agents), AgentName(acc.state, Head(agents)),
                                      item, acc))

\* ResolveKey that detects no conflict: every requester succeeds.
ResolveKey_AllWin(entities0, actions, item_id, pick, acc) ==
  LET ii == LastIndex(entities0, item_id)
  IN  IF ii = 0 THEN acc
      ELSE TakeForEach(TakeAgents(actions, item_id), entities0[ii], acc)

\* ResolveKey that announces a conflict before it looks the item up.
ResolveKey_ConflictBeforeCheck(entities0, actions, item_id, pick, acc) ==
  LET agents == TakeAgents(actions, item_id)
      ii == LastIndex(entities0, item_id)
      item == entities0[ii]
      state == acc.state
      winner_id == agents[pick[item_id]]
      winner_name == AgentName(state, winner_id)
      losers == SelectSeq(agents, LAMBDA a : a # winner_id)
      losers_names == [i \in 1..Len(losers) |-> AgentName(state, losers[i])]
      acc2 == [acc EXCEPT
                 !.narrative = @ \o << <<"conflicto", losers_names, winner_name, item_id>>,
                                       <<"empuja", winner_name>> >>,
                 !.events = Append(@, <<"conflict_occurred">>)]
  IN  IF Len(agents) = 1
      THEN (IF ii = 0 THEN acc
            ELSE apply_take_success(agents[1], AgentName(state, agents[1]), item, acc))
      ELSE (IF ii = 0 THEN acc2
            ELSE apply_take_success(winner_id, winner_name, item, acc2))

\* ResolveKey that appends conflict_occurred before the winner takes.
ResolveKey_ConflictEventFirst(entities0, actions, item_id, pick, acc) ==
  LET agents == TakeAgents(actions, item_id)
      ii == LastIndex(entities0, item_id)
      item == entities0[ii]
      state == acc.state
  IN  IF ii = 0 THEN acc
      ELSE IF Len(agents) = 1
      THEN apply_take_success(agents[1], AgentName(state, agents[1]), item, acc)
      ELSE
        LET winner_id == agents[pick[item_id]]
            winner_name == AgentName(state, winner_id)
            losers == SelectSeq(agents, LAMBDA a : a # winner_id)
            losers_names == [i \in 1..Len(losers) |-> AgentName(state, losers[i])]
            acc2 == [acc EXCEPT !.narrative = @ \o
                       << <<"conflicto", losers_names, winner_name, item.name>>,
                          <<"empuja", winner_name>> >>,
                                !.events = Append(@, <<"conflict_occurred">>)]
        IN  apply_take_success(winner_id, winner_name, item, acc2)

\* One iteration of the second loop of resolve_turn, for the key item_id of
\* take_requests.  entities0 is the entity list at entry (current_entities
\* is built from it); pick[k] is the index random.choice draws for key k.
ResolveKey(entities0, actions, item_id, pick, acc) ==
  LET agents == TakeAgents(actions, item_id)
      ii == LastIndex(entities0, item_id)
      item == entities0[ii]
      state == acc.state
  IN  IF ii = 0 THEN acc
      ELSE IF Len(agents) = 1
      THEN apply_take_success(agents[1], AgentName(state, agents[1]), item, acc)
      ELSE
        LET winner_id == agents[pick[item_id]]
            winner_name == AgentName(state, winner_id)
            losers == SelectSeq(agents, LAMBDA a : a # winner_id)
            losers_names == [i \in 1..Len(losers) |-> AgentName(state, losers[i])]
            acc2 == [acc EXCEPT !.narrative = @ \o
                       << <<"conflicto", losers_names, winner_name, item.name>>,
                          <<"empuja", winner_name>> >>]
            acc3 == apply_take_success(winner_id, winner_name, item, acc2)
        IN  [acc3 EXCEPT !.events = Append(@, <<"conflict_occurred">>)]

\* The second loop of resolve_turn, over the keys of take_requests in order.
RECURSIVE ResolveTakes(_, _, _, _, _)
ResolveTakes(entities0, actions, keys, pick, acc) ==
  IF keys = <<>> THEN acc
  ELSE ResolveTakes(entities0, actions, Tail(keys), pick,
                    ResolveKey(entities0, actions, Head(keys), pick, acc))

\* _apply_changes: DELETE filters the entity out, UPDATE of 'attributes'
\* rebinds the attribute map of every entity with that id; anything else is
\* ignored.
RECURSIVE ApplyChangeList(_, _)
ApplyChangeList(entities, changes) ==
  IF changes = <<>> THEN entities
  ELSE
    LET change == Head(changes)
        next ==
          IF change.action = "DELETE"
            THEN SelectSeq(entities, LAMBDA e : e.id # change.entity_id)
          ELSE IF change.action = "UPDATE" /\ change.attribute = "attributes"
            THEN [i \in 1..Len(entities) |->
                    IF entities[i].id = change.entity_id
                    THEN [entities[i] EXCEPT !.attributes = change.value_new]
                    ELSE entities[i]]
          ELSE entities
    IN  ApplyChangeList(next, Tail(changes))

\* _apply_changes without its UPDATE branch.
apply_changes_NoUpdate(state, changes) ==
  [state EXCEPT !.entities =
     SelectSeq(state.entities, LAMBDA e :
       \A i \in 1..Len(changes) :
         ~(changes[i].action = "DELETE" /\ changes[i].entity_id = e.id))]

apply_changes(state, changes) ==
  [room_id |-> state.room_id, turn_mode |-> state.turn_mode,
   agent_timeout_seconds |-> state.agent_timeout_seconds,
   environment |-> state.environment,
   entities |-> ApplyChangeList(state.entities, changes)]

\* The values a change holds once the loops are over: an aliased UPDATE shows
\* the attribute map and the inventory list of its entity as they are then.
Deref(raw, state) ==
  IF raw.alias = 0 THEN raw.change
  ELSE LET attrs == state.entities[raw.alias].attributes
       IN  [raw.change EXCEPT !.value_previous = attrs,
                              !.value_new.inventario = attrs.inventario]

\* The accumulators when both loops of resolve_turn are over.
ResolveLoops(state, actions, pick) ==
  ResolveTakes(state.entities, actions, TakeKeys(actions), pick,
               [state |-> state, changes |-> <<>>,
                narrative |-> ActionLines(state, actions), events |-> <<>>])

\* The input state object when resolve_turn returns.
StateAfterResolve(state, actions, pick) == ResolveLoops(state, actions, pick).state

resolve_turn(state, actions, turn_id, sim_id, pick) ==
  LET acc == ResolveLoops(state, actions, pick)
      changes == [i \in 1..Len(acc.changes) |-> Deref(acc.changes[i], acc.state)]
      new_state == apply_changes(acc.state, changes)
  IN  TurnResult(turn_id, sim_id, acc.narrative, changes, acc.events, new_state)

\* The draws random.choice can make in one resolve_turn: for every contested
\* key, an index into its list of agents.
ConflictKeys(actions) ==
  {k \in Range(TakeKeys(actions)) : Len(TakeAgents(actions, k)) > 1}

Picks(actions) ==
  {p \in [ConflictKeys(actions) -> 1..Len(actions)] :
     \A k \in ConflictKeys(actions) : p[k] <= Len(TakeAgents(actions, k))}

(***************************************************************************)
(* LLMArbitrator (app/arbitrator.py).                                      *)
(*                                                                         *)
(* The formatting reply is a sequence of tokens: the opening and the       *)
(* closing code fence, white space, text that is no JSON, and complete     *)
(* JSON values.                                                            *)
(* A JSON object is a record of the keys the code or the TurnResult model  *)
(* reads: Absent for a key that is not there, Present(v) for a key with    *)
(* the value v, BadValue for a key with a value of a type the TurnResult   *)
(* model rejects; a string inside a list is [str |-> ...].                 *)
(***************************************************************************)
Absent == [absent |-> TRUE]
BadValue == [bad |-> TRUE]
Present(v) == [v |-> v]

FenceJson == [tok |-> "fence_json"]
Fence == [tok |-> "fence"]
Blank == [tok |-> " "]
Garbage == [tok |-> "text"]
JsonValue(v) == [tok |-> "value", value |-> v]

JsonObject(narrative, changes, events, world_state, turn_id, simulation_id) ==
  [json |-> "object", narrative |-> narrative, changes |-> changes,
   events |-> events, world_state |-> world_state, turn_id |-> turn_id,
   simulation_id |-> simulation_id]

\* The two replace calls that drop the code fences, then strip().
RECURSIVE LStrip(_)
LStrip(toks) ==
  IF toks # <<>> /\ Head(toks) = Blank THEN LStrip(Tail(toks)) ELSE toks

RECURSIVE RStrip(_)
RStrip(toks) ==
  IF toks # <<>> /\ toks[Len(toks)] = Blank
  THEN RStrip(SubSeq(toks, 1, Len(toks) - 1)) ELSE toks

CleanJson(formatted_content) ==
  RStrip(LStrip(SelectSeq(formatted_content,
                          LAMBDA k : k # FenceJson /\ k # Fence)))

\* json.loads: the text is one complete JSON value, white space around it
\* allowed; anything else raises JSONDecodeError.
JsonLoads(clean_json) ==
  LET solid == SelectSeq(clean_json, LAMBDA k : k # Blank)
  IN  IF Len(solid) = 1 /\ solid[1].tok = "value"
      THEN [ok |-> TRUE, value |-> solid[1].value]
      ELSE [ok |-> FALSE, value |-> NoneVal]

\* The validation TurnResult(**result_dict) runs on the fields of the reply.
IsWorldChange(c) ==
  /\ DOMAIN c = {"action", "entity_id", "attribute", "value_previous", "value_new"}
  /\ c.action \in {"CREATE", "UPDATE", "DELETE"}

IsEntity(e) ==
  /\ DOMAIN e = {"id", "name", "type", "attributes", "driver"}
  /\ e.type \in {"agent", "item", "object"}

IsWorldState(w) ==
  /\ DOMAIN w = {"room_id", "turn_mode", "agent_timeout_seconds",
                 "environment", "entities"}
  /\ w.turn_mode \in {"sequential", "simultaneous"}
  /\ \A i \in 1..Len(w.entities) : IsEntity(w.entities[i])

IsTurnResultDict(d) ==
  /\ d.narrative # Absent /\ d.narrative # BadValue
  /\ d.changes # Absent /\ d.changes # BadValue
  /\ \A i \in 1..Len(d.changes.v) : IsWorldChange(d.changes.v[i])
  /\ d.events # Absent /\ d.events # BadValue
  /\ d.world_state # Absent /\ d.world_state # BadValue
  /\ IsWorldState(d.world_state.v)

\* The degraded result of the except clause.
ErrorAiResult(state, turn_id, simulation_id) ==
  TurnResult(turn_id, simulation_id, << <<"realidad_quebro">> >>, <<>>,
             << <<"error_ai">> >>, state)

\* LLMArbitrator.resolve_turn without its except clause: the decode error
\* leaves the call.
LLMResolveTurn_NoExcept(state, actions, turn_id, simulation_id, formatted_content) ==
  LET loaded == JsonLoads(CleanJson(formatted_content))
      v == loaded.value
      result_dict == [v EXCEPT !.turn_id = Present(turn_id),
                               !.simulation_id = Present(simulation_id),
                               !.world_state = IF @ = Absent THEN Present(state) ELSE @]
  IN  IF ~loaded.ok
        THEN [raised |-> "JSONDecodeError", result |-> NoneVal]
      ELSE IF v.json # "object"
        THEN [raised |-> "TypeError", result |-> NoneVal]
      ELSE IF ~IsTurnResultDict(result_dict)
        THEN [raised |-> "ValidationError", result |-> NoneVal]
      ELSE [raised |-> "None",
            result |-> TurnResult(result_dict.turn_id.v, result_dict.simulation_id.v,
                                  result_dict.narrative.v, result_dict.changes.v,
                                  result_dict.events.v, result_dict.world_state.v)]

\* LLMArbitrator.resolve_turn that sets turn_id only when the reply has
\* none: the turn id of the reply is kept.
LLMResolveTurn_KeepsReplyTurnId(state, actions, turn_id, simulation_id, formatted_content) ==
  LET loaded == JsonLoads(CleanJson(formatted_content))
      v == loaded.value
      result_dict == [v EXCEPT !.turn_id = IF @ = Absent THEN Present(turn_id) ELSE @,
                               !.simulation_id = Present(simulation_id),
                               !.world_state = IF @ = Absent THEN Present(state) ELSE @]
  IN  IF ~loaded.ok
        THEN [raised |-> "None",
              result |-> ErrorAiResult(state, turn_id, simulation_id)]
      ELSE IF v.json # "object"
        THEN [raised |-> "TypeError", result |-> NoneVal]
      ELSE IF ~IsTurnResultDict(result_dict)
        THEN [raised |-> "ValidationError", result |-> NoneVal]
      ELSE [raised |-> "None",
            result |-> TurnResult(result_dict.turn_id.v, result_dict.simulation_id.v,
                                  result_dict.narrative.v, result_dict.changes.v,
                                  result_dict.events.v, result_dict.world_state.v)]

\* LLMArbitrator.resolve_turn once the two completions have answered:
\* [raised |-> the exception that leaves the call or "None", result |-> the
\* TurnResult returned].
LLMResolveTurn(state, actions, turn_id, simulation_id, formatted_content) ==
  LET loaded == JsonLoads(CleanJson(formatted_content))
      v == loaded.value
      result_dict == [v EXCEPT !.turn_id = Present(turn_id),
                               !.simulation_id = Present(simulation_id),
                               !.world_state = IF @ = Absent THEN Present(state) ELSE @]
  IN  IF ~loaded.ok
        THEN [raised |-> "None",
              result |-> ErrorAiResult(state, turn_id, simulation_id)]
      ELSE IF v.json # "object"
        THEN [raised |-> "TypeError", result |-> NoneVal]
      ELSE IF ~IsTurnResultDict(result_dict)
        THEN [raised |-> "ValidationError", result |-> NoneVal]
      ELSE [raised |-> "None",
            result |-> TurnResult(result_dict.turn_id.v, result_dict.simulation_id.v,
                                  result_dict.narrative.v, result_dict.changes.v,
                                  result_dict.events.v, result_dict.world_state.v)]

(***************************************************************************)
(* Arbitrator-only runs: an input state and an action list are drawn, and  *)
(* resolve_turn is applied to them.                                        *)
(***************************************************************************)
VARIABLES arb_phase, arb_state, arb_actions, arb_pick, arb_result, arb_after,
          llm_phase, llm_state, llm_actions, llm_reply, llm_out,
          arbitrator_type, simulation_id, uuid_count, simulations, turn_logs,
          events_table, drivers, tasks, steps, calls,
          drv_kind, scr_agent_id, scr_script, scr_step, scr_returned,
          sta_agent_id, sta_responses, sta_current_turn, sta_returned,
          rt_pc, rt_at, rt_state, rt_turn_id, rt_get, rt_inputs, rt_result,
          rt_fb

arb_vars == <<arb_phase, arb_state, arb_actions, arb_pick, arb_result, arb_after>>
llm_vars == <<llm_phase, llm_state, llm_actions, llm_reply, llm_out>>
db_vars == <<simulations, turn_logs, events_table>>
engine_vars == <<arbitrator_type, simulation_id, uuid_count, db_vars, drivers,
                 tasks, steps, calls>>

\* One driver on its own: drv_kind says which class it is; scr_* are the
\* fields of a ScriptedDriver and sta_* those of a StaticFileDriver, each
\* with the outcomes of its get_action calls so far, in call order.
scr_vars == <<scr_agent_id, scr_script, scr_step, scr_returned>>
sta_vars == <<sta_agent_id, sta_responses, sta_current_turn, sta_returned>>
drv_vars == <<drv_kind, scr_vars, sta_vars>>

\* One run_turn call followed coroutine by coroutine: rt_pc is the statement
\* the call is at (rt_at the one that raised), rt_state, rt_turn_id,
\* rt_inputs and rt_result are its locals current_state, current_turn_id,
\* inputs_for_log and turn_result, rt_get its get_action coroutines and
\* rt_fb its receive_feedback coroutines, each with the argument it was made
\* with and how far it has run.
rt_vars == <<rt_pc, rt_at, rt_state, rt_turn_id, rt_get, rt_inputs, rt_result,
             rt_fb>>

ArbIdle ==
  /\ arb_phase = "idle"
  /\ arb_state = NoneVal
  /\ arb_actions = <<>>
  /\ arb_pick = <<>>
  /\ arb_result = NoneVal
  /\ arb_after = NoneVal

LlmIdle ==
  /\ llm_phase = "idle"
  /\ llm_state = NoneVal
  /\ llm_actions = <<>>
  /\ llm_reply = <<>>
  /\ llm_out = NoneVal

ScrIdle ==
  /\ scr_agent_id = "None"
  /\ scr_script = <<>>
  /\ scr_step = 0
  /\ scr_returned = <<>>

StaIdle ==
  /\ sta_agent_id = "None"
  /\ sta_responses = <<>>
  /\ sta_current_turn = 0
  /\ sta_returned = <<>>

\* No run_turn call is followed coroutine by coroutine.
RtIdle ==
  /\ rt_pc = "None"
  /\ rt_at = "None"
  /\ rt_state = NoneVal
  /\ rt_turn_id = 0
  /\ rt_get = <<>>
  /\ rt_inputs = <<>>
  /\ rt_result = NoneVal
  /\ rt_fb = <<>>

\* No driver is studied on its own.
DrvIdle ==
  /\ drv_kind = "None"
  /\ ScrIdle
  /\ StaIdle

\* A run_turn call slot nobody uses.
IdleTask ==
  [pc |-> "idle", caller |-> "direct", state |-> NoneVal, turn_id |-> 0,
   coros |-> <<>>, results |-> <<>>, agent_actions |-> <<>>,
   inputs_for_log |-> <<>>, saved_as |-> 0, turn_result |-> NoneVal,
   fb_coros |-> <<>>, err |-> "None", at |-> "None"]

\* run_steps: n is its argument, left the turns of its loop not yet over,
\* saved the turns of its loop that have been persisted.
IdleSteps == [status |-> "idle", left |-> 0, slot |-> 0, n |-> 0, saved |-> 0]

\* The engine before it is constructed: the state of the runs that do not
\* use it.
EngineIdle ==
  /\ arbitrator_type = "None"
  /\ simulation_id = 0
  /\ uuid_count = 0
  /\ simulations = {}
  /\ turn_logs = <<>>
  /\ events_table = <<>>
  /\ drivers = <<>>
  /\ tasks = <<>>
  /\ steps = IdleSteps
  /\ calls = 0

AnaAttrs == {[fuerza |-> 5],
             [fuerza |-> 5, inventario |-> <<>>],
             [fuerza |-> 5, inventario |-> <<"llave">>]}

ArbEntities(ana_attrs, with_caro) ==
  << Entity("A", "Ana", "agent", ana_attrs, "human"),
     Entity("B", "Beto", "agent", <<>>, "static") >>
  \o (IF with_caro THEN << Entity("C", "Caro", "agent", [fuerza |-> 1], "mock_ai") >>
      ELSE <<>>)
  \o << Entity("sword", "Espada", "item", [peso |-> 2], "None"),
        Entity("shield", "Escudo", "item", <<>>, "None") >>

ArbStates == {WorldState(ArbEntities(a, c)) : a \in AnaAttrs, c \in BOOLEAN}

ArbAgentIds == {"A", "B", "C"}
ArbTargetIds == {"sword", "shield", "A", "ghost", NoTarget}

ArbActionSet ==
  {AgentAction(a, "TAKE", t, <<>>) : a \in ArbAgentIds, t \in ArbTargetIds}
  \cup {AgentAction(a, "TALK", NoTarget, [message |-> <<"hola">>]) : a \in ArbAgentIds}
  \cup {AgentAction(a, "WAIT", NoTarget, <<>>) : a \in ArbAgentIds}

ArbSimId == "sim"

InitArb ==
  /\ arb_phase = "input"
  /\ arb_state \in ArbStates
  /\ arb_actions = <<>>
  /\ arb_pick = <<>>
  /\ arb_result = NoneVal
  /\ arb_after = NoneVal
  /\ LlmIdle
  /\ EngineIdle
  /\ DrvIdle
  /\ RtIdle

ArbAddAction ==
  /\ arb_phase = "input"
  /\ Len(arb_actions) < MaxActions
  /\ \E a \in ArbActionSet : arb_actions' = Append(arb_actions, a)
  /\ UNCHANGED <<arb_phase, arb_state, arb_pick, arb_result, arb_after>>
  /\ UNCHANGED <<llm_vars, engine_vars, drv_vars, rt_vars>>

ArbResolve ==
  /\ arb_phase = "input"
  /\ \E pick \in Picks(arb_actions) :
       /\ arb_pick' = pick
       /\ arb_result' = resolve_turn(arb_state, arb_actions, 1, ArbSimId, pick)
       /\ arb_after' = StateAfterResolve(arb_state, arb_actions, pick)
  /\ arb_phase' = "resolved"
  /\ UNCHANGED <<arb_state, arb_actions>>
  /\ UNCHANGED <<llm_vars, engine_vars, drv_vars, rt_vars>>

NextArb == ArbAddAction \/ ArbResolve

vars == <<arb_vars, llm_vars, engine_vars, drv_vars, rt_vars>>

SpecArb == InitArb /\ [][NextArb]_vars

(***************************************************************************)
(* Reasoning-backed arbitrator alone: a formatting reply is drawn token by *)
(* token and LLMArbitrator.resolve_turn is applied to it.                  *)
(***************************************************************************)
LlmWorld == WorldState(<< Entity("A", "Ana", "agent", [fuerza |-> 5], "human"),
                          Entity("sword", "Espada", "item", [peso |-> 2], "None") >>)

LlmWorldAfter == WorldState(<< Entity("A", "Ana", "agent",
                                      [fuerza |-> 5, inventario |-> <<"sword">>],
                                      "human") >>)

LlmNarrative == << <<"llm", "Ana toma la espada.">> >>
LlmEvents == << <<"A", "took", "sword">> >>
LlmChanges == << WorldChange("DELETE", "sword", "None", NoneVal, NoneVal) >>

\* A reply that matches the TurnResult shape, with the ids the service made up.
GoodObject(world_state) ==
  JsonObject(Present(LlmNarrative), Present(LlmChanges), Present(LlmEvents),
             world_state, Present(99), Present("made-up"))

LlmObjects ==
  { GoodObject(Present(LlmWorldAfter)),
    GoodObject(Absent),
    [GoodObject(Present(LlmWorldAfter)) EXCEPT
       !.changes = Present(<< [str |-> "DELETE sword"] >>)],
    [GoodObject(Present(LlmWorldAfter)) EXCEPT !.world_state = BadValue],
    [GoodObject(Present(LlmWorldAfter)) EXCEPT !.world_state.v.turn_mode = "realtime"],
    [GoodObject(Absent) EXCEPT !.narrative = Absent] }

LlmTokens ==
  {FenceJson, Fence, Blank, Garbage}
  \cup {JsonValue(o) : o \in LlmObjects}
  \cup {JsonValue([json |-> "array"]), JsonValue([json |-> "string"])}

\* Longest formatting reply, in tokens.
MaxReplyLen == 3

InitLlm ==
  /\ llm_phase = "input"
  /\ llm_state \in {LlmWorld, LlmWorldAfter}
  /\ llm_actions \in {<<>>, <<AgentAction("A", "TAKE", "sword", <<>>)>>}
  /\ llm_reply = <<>>
  /\ llm_out = NoneVal
  /\ ArbIdle
  /\ EngineIdle
  /\ DrvIdle
  /\ RtIdle

LlmAddToken ==
  /\ llm_phase = "input"
  /\ Len(llm_reply) < MaxReplyLen
  /\ \E k \in LlmTokens : llm_reply' = Append(llm_reply, k)
  /\ UNCHANGED <<llm_phase, llm_state, llm_actions, llm_out>>
  /\ UNCHANGED <<arb_vars, engine_vars, drv_vars, rt_vars>>

LlmResolve ==
  /\ llm_phase = "input"
  /\ llm_out' = LLMResolveTurn(llm_state, llm_actions, 1, ArbSimId, llm_reply)
  /\ llm_phase' = "resolved"
  /\ UNCHANGED <<llm_state, llm_actions, llm_reply>>
  /\ UNCHANGED <<arb_vars, engine_vars, drv_vars, rt_vars>>

NextLlm == LlmAddToken \/ LlmResolve

SpecLlm == InitLlm /\ [][NextLlm]_vars

(***************************************************************************)
(* DatabaseLog (app/db.py).  turn_logs and events_table are the rows of    *)
(* the two tables in the order of their insertion.                         *)
(***************************************************************************)
\* world_state.model_dump_json(), and json.loads followed by WorldState(**d).
model_dump_json(world_state) == [json |-> world_state]
WorldStateFromJson(text) == text.json

create_simulation(sims, sim_id) ==
  sims \cup {[id |-> sim_id, status |-> "running"]}

SimRows(logs, sim_id) == SelectSeq(logs, LAMBDA r : r.simulation_id = sim_id)

\* SELECT world_state ... ORDER BY turn_id DESC LIMIT 1; None without a row.
load_last_state(logs, sim_id) ==
  LET rows == SimRows(logs, sim_id)
      top == CHOOSE i \in 1..Len(rows) :
               \A j \in 1..Len(rows) : rows[j].turn_id <= rows[i].turn_id
  IN  IF rows = <<>> THEN NoneVal ELSE WorldStateFromJson(rows[top].world_state)

\* The statement of save_turn at which the database fails (it is locked, the
\* disk is full): none, the insert into turn_logs, an insert into events.
SaveFaults == {"None", "turn_logs", "events"}

\* save_turn that keeps what it has written when a later insert fails.
save_turn_NoRollback(logs, events, turn_result, inputs, fault) ==
  LET row == [turn_id |-> turn_result.turn_id,
              simulation_id |-> turn_result.simulation_id,
              agents_inputs |-> inputs,
              referee_decision |-> [narrative |-> turn_result.narrative,
                                    changes |-> turn_result.changes],
              world_state |-> model_dump_json(turn_result.world_state),
              status |-> "completed"]
      index == [i \in 1..Len(turn_result.events) |->
                  [simulation_id |-> turn_result.simulation_id,
                   turn_id |-> turn_result.turn_id,
                   event_tag |-> turn_result.events[i]]]
  IN  IF \E i \in 1..Len(logs) :
           /\ logs[i].turn_id = row.turn_id
           /\ logs[i].simulation_id = row.simulation_id
      THEN [raised |-> "IntegrityError", turn_logs |-> logs, events_table |-> events]
      ELSE IF fault = "turn_logs"
      THEN [raised |-> "OperationalError", turn_logs |-> logs, events_table |-> events]
      ELSE IF fault = "events" /\ index # <<>>
      THEN [raised |-> "OperationalError", turn_logs |-> Append(logs, row),
            events_table |-> events]
      ELSE [raised |-> "None", turn_logs |-> Append(logs, row),
            events_table |-> events \o index]

\* save_turn, one transaction (with sqlite3.connect(...) as conn commits
\* when the block ends and rolls back when it raises): the insert into
\* turn_logs fails on a row with the same (turn_id, simulation_id); an insert
\* fails when the database does; and then nothing is written.
save_turn(logs, events, turn_result, inputs, fault) ==
  LET row == [turn_id |-> turn_result.turn_id,
              simulation_id |-> turn_result.simulation_id,
              agents_inputs |-> inputs,
              referee_decision |-> [narrative |-> turn_result.narrative,
                                    changes |-> turn_result.changes],
              world_state |-> model_dump_json(turn_result.world_state),
              status |-> "completed"]
      index == [i \in 1..Len(turn_result.events) |->
                  [simulation_id |-> turn_result.simulation_id,
                   turn_id |-> turn_result.turn_id,
                   event_tag |-> turn_result.events[i]]]
  IN  IF \E i \in 1..Len(logs) :
           /\ logs[i].turn_id = row.turn_id
           /\ logs[i].simulation_id = row.simulation_id
      THEN [raised |-> "IntegrityError", turn_logs |-> logs, events_table |-> events]
      ELSE IF fault = "turn_logs" \/ (fault = "events" /\ index # <<>>)
      THEN [raised |-> "OperationalError", turn_logs |-> logs, events_table |-> events]
      ELSE [raised |-> "None", turn_logs |-> Append(logs, row),
            events_table |-> events \o index]

(***************************************************************************)
(* Drivers (app/drivers.py), as the engine sees them: what one get_action  *)
(* or receive_feedback call can answer.                                    *)
(***************************************************************************)
Exc == [st |-> "exc"]
Ok(action) == [st |-> "ok", action |-> action]
OkNone == [st |-> "ok"]

ItemIds(state) ==
  {state.entities[i].id : i \in {j \in 1..Len(state.entities) :
                                   state.entities[j].type = "item"}}

\* mock_ai: TAKE or TALK at an item drawn among the visible ones, WAIT when
\* there is none.  scripted (the engine gives it an empty script) and api:
\* WAIT.  human: the line typed is "TAKE sword" or "TAKE B", or the input
\* ends.  static: the file of the agent holds a TAKE of the sword, or
\* something that is no action.
GetActionOutcomes(kind, agent_id, visible_state) ==
  IF kind = "mock_ai" THEN
    IF ItemIds(visible_state) = {}
    THEN {Ok(AgentAction(agent_id, "WAIT", NoTarget, [reason |-> <<"Aburrido...">>]))}
    ELSE {Ok(AgentAction(agent_id, "TAKE", t, [reason |-> <<"Es mio!">>])) :
            t \in ItemIds(visible_state)}
         \cup {Ok(AgentAction(agent_id, "TALK", t,
                              [message |-> <<"oye", AgentName(visible_state, t)>>])) :
                 t \in ItemIds(visible_state)}
  ELSE IF kind \in {"scripted", "api"} THEN
    {Ok(AgentAction(agent_id, "WAIT", NoTarget, <<>>))}
  ELSE IF kind = "human" THEN
    {Ok(AgentAction(agent_id, "TAKE", "sword", <<>>)),
     Ok(AgentAction(agent_id, "TAKE", "B", <<>>)),
     Exc}
  ELSE
    {Ok(AgentAction(agent_id, "TAKE", "sword", <<>>)),
     Exc}

\* receive_feedback: the human driver prints, which can fail; the others pass.
FeedbackOutcomes(kind) == IF kind = "human" THEN {OkNone, Exc} ELSE {OkNone}

(***************************************************************************)
(* SimulationEngine (app/engine.py).                                       *)
(*                                                                         *)
(* simulation_id 0 is None; uuid4 gives uuid_count + 1.  drivers is the    *)
(* dict self.drivers in the order of its keys.  tasks are the run_turn     *)
(* calls: a call runs from one await to the next in one step; the drivers  *)
(* touch nothing of the engine, so a gather is one step with its results.  *)
(***************************************************************************)
\* run_turn calls in flight at once.
MaxTasks == 2
\* run_turn calls started in a run.
MaxCalls == 2
\* initialize_simulation calls.
MaxSims == 2
\* The largest n of run_steps(n).
MaxSteps == 2

WorldInit ==
  WorldState(<< Entity("A", "Ana", "agent", [fuerza |-> 5], "human"),
                Entity("B", "Beto", "agent", <<>>, "static"),
                Entity("C", "Caro", "agent", [fuerza |-> 1], "robot"),
                Entity("sword", "Espada", "item", [peso |-> 2], "None") >>)

\* Another world: another room, without Caro.
WorldOther ==
  [WorldState(<< Entity("A", "Ana", "agent", [fuerza |-> 5], "human"),
                 Entity("B", "Beto", "agent", <<>>, "static"),
                 Entity("sword", "Espada", "item", [peso |-> 2], "None") >>)
     EXCEPT !.room_id = "patio", !.environment.description = "un patio"]

\* The documents initialize_simulation may be given: a WorldState, one the
\* WorldState model rejects, a WorldState in which the driver of Beto is
\* of an unknown kind too, and the WorldState of another world.
Configs ==
  {WorldInit,
   [WorldInit EXCEPT !.turn_mode = "realtime"],
   [WorldInit EXCEPT !.entities[2].driver = "robot"],
   WorldOther}

\* The formatting replies of the external service in the engine runs.
EngineReplies ==
  { <<Garbage>>,
    <<JsonValue([json |-> "array"])>>,
    <<FenceJson, JsonValue(GoodObject(Absent)), Fence>>,
    <<JsonValue([GoodObject(Absent) EXCEPT
                   !.changes = Present(<< [str |-> "DELETE sword"] >>)])>> }

\* dict[key] = value on a dict kept as the sequence of its items.
DictSet(dict, key, value) ==
  IF \E i \in 1..Len(dict) : dict[i].key = key
  THEN [i \in 1..Len(dict) |->
          IF dict[i].key = key THEN [key |-> key, value |-> value] ELSE dict[i]]
  ELSE Append(dict, [key |-> key, value |-> value])

KnownDrivers == {"mock_ai", "scripted", "api", "human", "static"}

RECURSIVE SetupEntities(_, _)
SetupEntities(drv, entities) ==
  IF entities = <<>> THEN drv
  ELSE LET entity == Head(entities)
           next == IF /\ entity.type = "agent"
                      /\ entity.driver \notin {"None", ""}
                      /\ entity.driver \in KnownDrivers
                   THEN DictSet(drv, entity.id, entity.driver)
                   ELSE drv
       IN  SetupEntities(next, Tail(entities))

setup_drivers(drv, state) == SetupEntities(drv, state.entities)

\* SELECT MAX(turn_id) ...: (row[0] if row[0] is not None else -1) + 1
get_next_turn_id(logs, sim_id) ==
  LET rows == SimRows(logs, sim_id)
      top == CHOOSE i \in 1..Len(rows) :
               \A j \in 1..Len(rows) : rows[j].turn_id <= rows[i].turn_id
  IN  IF rows = <<>> THEN 0 ELSE rows[top].turn_id + 1

\* BeginRunTurn without the check of simulation_id.
BeginRunTurn_NoCheck(caller) ==
  LET last_state_dict == load_last_state(turn_logs, simulation_id)
  IN  IF last_state_dict = NoneVal
        THEN [IdleTask EXCEPT !.pc = "raised", !.caller = caller,
                              !.err = "TypeError", !.at = "load_last_state"]
      ELSE [IdleTask EXCEPT
              !.pc = "collect", !.caller = caller,
              !.state = last_state_dict,
              !.turn_id = get_next_turn_id(turn_logs, simulation_id),
              !.coros = drivers]

\* run_turn up to its first await: the check of simulation_id, the load of
\* the last state, the next turn id, one get_action coroutine per driver.
BeginRunTurn(caller) ==
  LET last_state_dict == load_last_state(turn_logs, simulation_id)
  IN  IF simulation_id = 0
        THEN [IdleTask EXCEPT !.pc = "raised", !.caller = caller,
                              !.err = "ValueError", !.at = "simulation_id"]
      ELSE IF last_state_dict = NoneVal
        THEN [IdleTask EXCEPT !.pc = "raised", !.caller = caller,
                              !.err = "TypeError", !.at = "load_last_state"]
      ELSE [IdleTask EXCEPT
              !.pc = "collect", !.caller = caller,
              !.state = last_state_dict,
              !.turn_id = get_next_turn_id(turn_logs, simulation_id),
              !.coros = drivers]

\* CollectActions that puts a WAIT in for a coroutine that raised.
CollectActions_WaitForFailed(results) ==
  [i \in 1..Len(results) |->
     IF results[i].st = "ok" THEN results[i].action
     ELSE AgentAction("?", "WAIT", NoTarget, <<>>)]

\* The loop over the results of the first gather (return_exceptions=True).
CollectActions(results) ==
  LET good == SelectSeq(results, LAMBDA r : r.st = "ok")
  IN  [i \in 1..Len(good) |-> good[i].action]

\* inputs_for_log keyed by the type of the action, not by its agent.
RECURSIVE CollectInputs_KeyedByType(_, _)
CollectInputs_KeyedByType(dict, agent_actions) ==
  IF agent_actions = <<>> THEN dict
  ELSE CollectInputs_KeyedByType(
         DictSet(dict, Head(agent_actions).action_type, Head(agent_actions)),
         Tail(agent_actions))

\* inputs_for_log[res.agent_id] = res.model_dump() for every action.
RECURSIVE CollectInputs(_, _)
CollectInputs(dict, agent_actions) ==
  IF agent_actions = <<>> THEN dict
  ELSE CollectInputs(DictSet(dict, Head(agent_actions).agent_id, Head(agent_actions)),
                     Tail(agent_actions))

\* What the arbitrator draws in one call: the random choices of the
\* deterministic one, the formatting reply of the reasoning-backed one.
ArbitratorDraws(agent_actions) ==
  IF arbitrator_type = "llm"
  THEN {[pick |-> <<>>, reply |-> r] : r \in EngineReplies}
  ELSE {[pick |-> p, reply |-> <<>>] : p \in Picks(agent_actions)}

\* self.arbitrator.resolve_turn(current_state, agent_actions, turn_id, sim_id)
Arbitrate(state, agent_actions, turn_id, sim_id, draw) ==
  IF arbitrator_type = "llm"
  THEN LLMResolveTurn(state, agent_actions, turn_id, sim_id, draw.reply)
  ELSE [raised |-> "None",
        result |-> resolve_turn(state, agent_actions, turn_id, sim_id, draw.pick)]

\* A call that has ended: its locals are gone, what is kept is how it ended
\* (the exception raised, and the statement of run_turn that raised it).
Ended(task, pc, err, at) ==
  [IdleTask EXCEPT !.pc = pc, !.err = err, !.at = at, !.caller = task.caller]

SlotFree(t) ==
  /\ tasks[t].pc \in {"idle", "returned", "raised"}
  /\ ~(steps.status = "running" /\ steps.slot = t)

\* for _ in range(steps) that stops one turn early.
MoreSteps_OneShort(st) == st.left > 2

\* for _ in range(steps): another turn follows the one that has returned.
MoreSteps(st) == st.left > 1

\* run_steps when the run_turn it awaits in slot t raises: it raises too.
StepsAfter(t, task_after) ==
  IF steps.status = "running" /\ steps.slot = t /\ task_after.pc = "raised"
  THEN [steps EXCEPT !.status = "raised"]
  ELSE steps

InitEngine ==
  /\ arbitrator_type \in {"mock", "llm"}
  /\ simulation_id = 0
  /\ uuid_count = 0
  /\ simulations = {}
  /\ turn_logs = <<>>
  /\ events_table = <<>>
  /\ drivers = <<>>
  /\ tasks = [t \in 1..MaxTasks |-> IdleTask]
  /\ steps = IdleSteps
  /\ calls = 0
  /\ ArbIdle
  /\ LlmIdle
  /\ DrvIdle
  /\ RtIdle

\* initialize_simulation that sets the drivers up from the config before it
\* validates it and saves turn 0.
InitializeSimulation_DriversFirst ==
  /\ uuid_count < MaxSims
  /\ \E config_data \in Configs :
       LET sim_id == uuid_count + 1
           turn0 == TurnResult(0, sim_id, << <<"inicio">> >>, <<>>,
                               << <<"init">> >>, config_data)
           saved == save_turn(turn_logs, events_table, turn0, <<>>, "None")
       IN  /\ uuid_count' = sim_id
           /\ simulation_id' = sim_id
           /\ simulations' = create_simulation(simulations, sim_id)
           /\ drivers' = setup_drivers(drivers, config_data)
           /\ IF IsWorldState(config_data)
              THEN /\ turn_logs' = saved.turn_logs
                   /\ events_table' = saved.events_table
              ELSE UNCHANGED <<turn_logs, events_table>>
  /\ UNCHANGED <<arbitrator_type, tasks, steps, calls, arb_vars, llm_vars, drv_vars, rt_vars>>

\* initialize_simulation.  A config file that cannot be read or decoded
\* raises before anything is done and is left out; so is a database that
\* fails here.
InitializeSimulation ==
  /\ uuid_count < MaxSims
  /\ \E config_data \in Configs :
       LET sim_id == uuid_count + 1
           turn0 == TurnResult(0, sim_id, << <<"inicio">> >>, <<>>,
                               << <<"init">> >>, config_data)
           saved == save_turn(turn_logs, events_table, turn0, <<>>, "None")
       IN  /\ uuid_count' = sim_id
           /\ simulation_id' = sim_id
           /\ simulations' = create_simulation(simulations, sim_id)
           /\ IF IsWorldState(config_data)
              THEN /\ turn_logs' = saved.turn_logs
                   /\ events_table' = saved.events_table
                   /\ drivers' = setup_drivers(drivers, config_data)
              ELSE UNCHANGED <<turn_logs, events_table, drivers>>
  /\ UNCHANGED <<arbitrator_type, tasks, steps, calls, arb_vars, llm_vars, drv_vars, rt_vars>>

\* A caller awaits run_turn(): the call takes the first free slot.
RunTurn(t) ==
  /\ SlotFree(t)
  /\ \A u \in 1..(t - 1) : ~SlotFree(u)
  /\ calls < MaxCalls
  /\ calls' = calls + 1
  /\ tasks' = [tasks EXCEPT ![t] = BeginRunTurn("direct")]
  /\ UNCHANGED <<arbitrator_type, simulation_id, uuid_count, db_vars, drivers,
                 steps, arb_vars, llm_vars, drv_vars, rt_vars>>

\* A caller awaits run_steps(n): the first run_turn starts in slot t.
RunSteps(t, n) ==
  /\ steps.status # "running"
  /\ t = 1
  /\ SlotFree(t)
  /\ calls < MaxCalls
  /\ calls' = calls + 1
  /\ LET begun == BeginRunTurn("steps")
     IN  /\ tasks' = [tasks EXCEPT ![t] = begun]
         /\ steps' = [status |-> IF begun.pc = "raised" THEN "raised" ELSE "running",
                      left |-> n, slot |-> t, n |-> n, saved |-> 0]
  /\ UNCHANGED <<arbitrator_type, simulation_id, uuid_count, db_vars, drivers,
                 arb_vars, llm_vars, drv_vars, rt_vars>>

\* The results the first gather can hand back: one outcome per coroutine,
\* in the order of the coroutines.
GatherResults(coros, visible_state) ==
  {r \in [1..Len(coros) -> UNION {GetActionOutcomes(coros[i].value, coros[i].key,
                                                    visible_state) :
                                    i \in 1..Len(coros)}] :
     \A i \in 1..Len(coros) :
       r[i] \in GetActionOutcomes(coros[i].value, coros[i].key, visible_state)}

\* run_turn from the first gather to the second: every get_action coroutine
\* has ended, the results are sorted, the arbitrator resolves the turn, the
\* turn is saved, one receive_feedback coroutine per driver is made.
ArbitrateAndSave(t) ==
  /\ tasks[t].pc = "collect"
  /\ \E results \in GatherResults(tasks[t].coros, tasks[t].state) :
     \E agent_actions \in {CollectActions(results)} :
     \E inputs_for_log \in {CollectInputs(<<>>, agent_actions)} :
     \E draw \in ArbitratorDraws(agent_actions) :
     \E out \in {Arbitrate(tasks[t].state, agent_actions, tasks[t].turn_id,
                           simulation_id, draw)} :
       IF out.raised # "None"
       THEN /\ tasks' = [tasks EXCEPT ![t] =
                           Ended(tasks[t], "raised", out.raised, "resolve_turn")]
            /\ steps' = StepsAfter(t, tasks'[t])
            /\ UNCHANGED <<turn_logs, events_table>>
       ELSE \E fault \in SaveFaults :
            \E saved \in {save_turn(turn_logs, events_table, out.result,
                                    inputs_for_log, fault)} :
              IF saved.raised # "None"
              THEN /\ tasks' = [tasks EXCEPT ![t] =
                                  Ended(tasks[t], "raised", saved.raised, "save_turn")]
                   /\ steps' = StepsAfter(t, tasks'[t])
                   /\ turn_logs' = saved.turn_logs
                   /\ events_table' = saved.events_table
              ELSE /\ tasks' = [tasks EXCEPT ![t] =
                                  [tasks[t] EXCEPT
                                     !.pc = "feedback",
                                     !.results = results,
                                     !.agent_actions = agent_actions,
                                     !.inputs_for_log = inputs_for_log,
                                     !.turn_result = out.result,
                                     !.saved_as = simulation_id,
                                     !.fb_coros = drivers]]
                   /\ turn_logs' = saved.turn_logs
                   /\ events_table' = saved.events_table
                   /\ steps' = IF steps.status = "running" /\ steps.slot = t
                               THEN [steps EXCEPT !.saved = @ + 1]
                               ELSE steps
  /\ UNCHANGED <<arbitrator_type, simulation_id, uuid_count, simulations, drivers,
                 calls, arb_vars, llm_vars, drv_vars, rt_vars>>

\* The results of the second gather: one outcome per coroutine.
GatherFeedback(coros) ==
  {r \in [1..Len(coros) -> {OkNone, Exc}] :
     \A i \in 1..Len(coros) : r[i] \in FeedbackOutcomes(coros[i].value)}

\* run_turn after the second gather, which has no return_exceptions: the
\* call raises the exception of a coroutine, or returns the result once
\* every coroutine has ended.  run_steps, when it is the caller, goes on
\* with its loop at once.
FinishTurn(t) ==
  /\ tasks[t].pc = "feedback"
  /\ \E feedback \in GatherFeedback(tasks[t].fb_coros) :
       LET task == tasks[t]
           failed == \E i \in 1..Len(feedback) : feedback[i] = Exc
           mine == steps.status = "running" /\ steps.slot = t
           raised == Ended(task, "raised", "DriverError", "receive_feedback")
           begun == BeginRunTurn("steps")
       IN  IF failed
           THEN /\ tasks' = [tasks EXCEPT ![t] = raised]
                /\ steps' = StepsAfter(t, raised)
                /\ calls' = calls
           ELSE IF mine /\ MoreSteps(steps)
           THEN /\ calls < MaxCalls
                /\ calls' = calls + 1
                /\ tasks' = [tasks EXCEPT ![t] = begun]
                /\ steps' = [steps EXCEPT
                               !.left = @ - 1,
                               !.status = IF begun.pc = "raised" THEN "raised"
                                          ELSE "running"]
           ELSE /\ tasks' = [tasks EXCEPT ![t] = Ended(task, "returned", "None", "None")]
                /\ steps' = IF mine THEN [steps EXCEPT !.left = 0, !.status = "done"]
                            ELSE steps
                /\ calls' = calls
  /\ UNCHANGED <<arbitrator_type, simulation_id, uuid_count, db_vars, drivers,
                 arb_vars, llm_vars, drv_vars, rt_vars>>

Next ==
  \/ InitializeSimulation
  \/ \E t \in 1..MaxTasks : RunTurn(t)
  \/ \E t \in 1..MaxTasks, n \in 1..MaxSteps : RunSteps(t, n)
  \/ \E t \in 1..MaxTasks : ArbitrateAndSave(t)
  \/ \E t \in 1..MaxTasks : FinishTurn(t)

Spec == InitEngine /\ [][Next]_vars

(***************************************************************************)
(* ScriptedDriver and StaticFileDriver on their own.                       *)
(***************************************************************************)
MaxScriptLen == 2
MaxScriptCalls == 4
MaxStaticCalls == 3

\* ScriptedDriver.get_action that forgets self.step += 1.
ScriptedGetAction_NoAdvance(agent_id, script, step) ==
  IF step < Len(script)
  THEN [outcome |-> Ok(script[step + 1]), step |-> step]
  ELSE [outcome |-> Ok(AgentAction(agent_id, "WAIT", NoTarget, <<>>)),
        step |-> step]

\* ScriptedDriver.get_action: the outcome of the call and the value of
\* self.step after it.  self.script[self.step] is 0-based.
ScriptedGetAction(agent_id, script, step) ==
  IF step < Len(script)
  THEN [outcome |-> Ok(script[step + 1]), step |-> step + 1]
  ELSE [outcome |-> Ok(AgentAction(agent_id, "WAIT", NoTarget, <<>>)),
        step |-> step]

ScriptAgentIds == {"A", "B"}

\* The pre-built actions a script is made of; a script may hold actions of
\* any agent.
ScriptActions ==
  {AgentAction("A", "TAKE", "sword", <<>>),
   AgentAction("B", "TALK", NoTarget, [message |-> <<"hola">>]),
   AgentAction("A", "WAIT", NoTarget, <<>>)}

Scripts == UNION {[1..n -> ScriptActions] : n \in 0..MaxScriptLen}

\* ScriptedDriver(agent_id, script) just constructed.
InitScripted ==
  /\ drv_kind = "scripted"
  /\ scr_agent_id \in ScriptAgentIds
  /\ scr_script \in Scripts
  /\ scr_step = 0
  /\ scr_returned = <<>>
  /\ StaIdle
  /\ ArbIdle
  /\ LlmIdle
  /\ EngineIdle
  /\ RtIdle

\* One call of ScriptedDriver.get_action; visible_state is not read.
ScriptedCall ==
  /\ drv_kind = "scripted"
  /\ Len(scr_returned) < MaxScriptCalls
  /\ \E visible_state \in {WorldInit} :
       \E got \in {ScriptedGetAction(scr_agent_id, scr_script, scr_step)} :
         /\ scr_step' = got.step
         /\ scr_returned' = Append(scr_returned, got.outcome)
  /\ UNCHANGED <<drv_kind, scr_agent_id, scr_script, sta_vars>>
  /\ UNCHANGED <<arb_vars, llm_vars, engine_vars, rt_vars>>

NextScripted == ScriptedCall

SpecScripted == InitScripted /\ [][NextScripted]_vars

\* The keys a responses file may hold: str(self.current_turn) and "default".
StaticKeys == {"1", "2", "default"}

\* A JSON object of a responses file: each of its three keys is there or not.
StaticEntry(action_type, target_id, payload) ==
  [action_type |-> action_type, target_id |-> target_id, payload |-> payload]

EmptyEntry == StaticEntry(Absent, Absent, Absent)

\* The values a key of a responses file may have: null, {} and objects.
StaticValues ==
  {NoneVal, EmptyEntry,
   StaticEntry(Present("TAKE"), Present("sword"), Absent),
   StaticEntry(Present("TALK"), Absent, Present([message |-> <<"hola">>])),
   StaticEntry(Absent, Present("sword"), Absent)}

\* The responses files: every key is absent or has one of the values.
StaticResponses == [StaticKeys -> {Absent} \cup {Present(v) : v \in StaticValues}]

\* dict.get(key): None when the key is not there.
DictGet(dict, key) ==
  IF key \in DOMAIN dict /\ dict[key] # Absent THEN dict[key].v ELSE NoneVal

\* dict.get(key, default) on a JSON object of a responses file.
EntryGet(entry, key, default) ==
  IF entry[key] = Absent THEN default ELSE entry[key].v

\* Python truth of a value of a responses file: None and {} are false.
Truthy(value) == value # NoneVal /\ value # EmptyEntry

\* a or b
PyOr(a, b) == IF Truthy(a) THEN a ELSE b

\* str(self.current_turn)
Str(n) == IF n = 1 THEN "1" ELSE IF n = 2 THEN "2" ELSE IF n = 3 THEN "3"
          ELSE IF n = 4 THEN "4" ELSE "5"

\* StaticFileDriver.get_action: the outcome of the call and the value of
\* self.current_turn after it.
StaticGetAction(agent_id, responses, current_turn) ==
  LET turn == current_turn + 1
      action_data == PyOr(DictGet(responses, Str(turn)),
                          DictGet(responses, "default"))
  IN  [outcome |->
         IF Truthy(action_data)
         THEN Ok(AgentAction(agent_id,
                             EntryGet(action_data, "action_type", "WAIT"),
                             EntryGet(action_data, "target_id", NoTarget),
                             EntryGet(action_data, "payload", <<>>)))
         ELSE Ok(AgentAction(agent_id, "WAIT", NoTarget,
                             [reason |-> <<"No script logic">>])),
       current_turn |-> turn]

StaticAgentId == "B"

\* StaticFileDriver(agent_id) just constructed, its responses file read.
InitStatic ==
  /\ drv_kind = "static"
  /\ sta_agent_id = StaticAgentId
  /\ sta_responses \in StaticResponses
  /\ sta_current_turn = 0
  /\ sta_returned = <<>>
  /\ ScrIdle
  /\ ArbIdle
  /\ LlmIdle
  /\ EngineIdle
  /\ RtIdle

\* One call of StaticFileDriver.get_action; visible_state is not read.
StaticCall ==
  /\ drv_kind = "static"
  /\ Len(sta_returned) < MaxStaticCalls
  /\ \E visible_state \in {WorldInit} :
       \E got \in {StaticGetAction(sta_agent_id, sta_responses, sta_current_turn)} :
         /\ sta_current_turn' = got.current_turn
         /\ sta_returned' = Append(sta_returned, got.outcome)
  /\ UNCHANGED <<drv_kind, sta_agent_id, sta_responses, scr_vars>>
  /\ UNCHANGED <<arb_vars, llm_vars, engine_vars, rt_vars>>

NextStatic == StaticCall

SpecStatic == InitStatic /\ [][NextStatic]_vars

(***************************************************************************)
(* One run_turn call on an engine that has been initialized, followed      *)
(* coroutine by coroutine: the coroutines of a gather run in any order and *)
(* each takes its time.                                                    *)
(***************************************************************************)
Pending == [st |-> "pending"]
Running == [st |-> "running"]

\* driver.get_action(visible_state) for every driver: the coroutines of the
\* first gather, each with the argument it was made with.
GetActionCoros(drv, visible_state) ==
  [i \in 1..Len(drv) |->
     [key |-> drv[i].key, kind |-> drv[i].value, seen |-> visible_state,
      out |-> Pending]]

\* d.receive_feedback(turn_result) for every driver.
FeedbackCoros(drv, turn_result) ==
  [i \in 1..Len(drv) |->
     [key |-> drv[i].key, kind |-> drv[i].value, seen |-> turn_result,
      out |-> Pending]]

CoroOver(coro) == coro.out.st \in {"ok", "exc"}

\* A gather that hands back as soon as one coroutine has ended.
GatherOver_FirstCompleted(coros) ==
  coros = <<>> \/ \E i \in 1..Len(coros) : CoroOver(coros[i])

\* await asyncio.gather(*coros, return_exceptions=True) hands back once
\* every coroutine has returned or raised.
GatherOver(coros) == \A i \in 1..Len(coros) : CoroOver(coros[i])

\* The configurations initialize_simulation accepts.
ValidConfigs == {c \in Configs : IsWorldState(c)}

InitTurn ==
  /\ arbitrator_type \in {"mock", "llm"}
  /\ simulation_id = 1
  /\ uuid_count = 1
  /\ simulations = create_simulation({}, 1)
  /\ \E config_data \in ValidConfigs :
       LET turn0 == TurnResult(0, 1, << <<"inicio">> >>, <<>>,
                               << <<"init">> >>, config_data)
           saved == save_turn(<<>>, <<>>, turn0, <<>>, "None")
       IN  /\ turn_logs = saved.turn_logs
           /\ events_table = saved.events_table
           /\ drivers = setup_drivers(<<>>, config_data)
  /\ tasks = <<>>
  /\ steps = IdleSteps
  /\ calls = 0
  /\ rt_pc = "call"
  /\ rt_at = "None"
  /\ rt_state = NoneVal
  /\ rt_turn_id = 0
  /\ rt_get = <<>>
  /\ rt_inputs = <<>>
  /\ rt_result = NoneVal
  /\ rt_fb = <<>>
  /\ ArbIdle
  /\ LlmIdle
  /\ DrvIdle

\* run_turn up to its first await.
RtBegin ==
  /\ rt_pc = "call"
  /\ rt_state' = load_last_state(turn_logs, simulation_id)
  /\ rt_turn_id' = get_next_turn_id(turn_logs, simulation_id)
  /\ rt_get' = GetActionCoros(drivers, rt_state')
  /\ rt_pc' = "gather_actions"
  /\ UNCHANGED <<rt_at, rt_inputs, rt_result, rt_fb>>
  /\ UNCHANGED <<arb_vars, llm_vars, engine_vars, drv_vars>>

\* The event loop runs get_action coroutine i up to its await.
RtGetActionRun(i) ==
  /\ rt_pc = "gather_actions"
  /\ rt_get[i].out = Pending
  /\ rt_get' = [rt_get EXCEPT ![i].out = Running]
  /\ UNCHANGED <<rt_pc, rt_at, rt_state, rt_turn_id, rt_inputs, rt_result, rt_fb>>
  /\ UNCHANGED <<arb_vars, llm_vars, engine_vars, drv_vars>>

\* get_action coroutine i returns its action or raises.
RtGetActionEnd(i) ==
  /\ rt_pc = "gather_actions"
  /\ rt_get[i].out = Running
  /\ \E out \in GetActionOutcomes(rt_get[i].kind, rt_get[i].key, rt_get[i].seen) :
       rt_get' = [rt_get EXCEPT ![i].out = out]
  /\ UNCHANGED <<rt_pc, rt_at, rt_state, rt_turn_id, rt_inputs, rt_result, rt_fb>>
  /\ UNCHANGED <<arb_vars, llm_vars, engine_vars, drv_vars>>

\* The first gather hands back: the results are sorted and the arbitrator
\* resolves the turn.
RtResolve ==
  /\ rt_pc = "gather_actions"
  /\ GatherOver(rt_get)
  /\ \E results \in {[i \in 1..Len(rt_get) |-> rt_get[i].out]} :
     \E agent_actions \in {CollectActions(results)} :
     \E draw \in ArbitratorDraws(agent_actions) :
     \E out \in {Arbitrate(rt_state, agent_actions, rt_turn_id, simulation_id, draw)} :
       /\ rt_inputs' = CollectInputs(<<>>, agent_actions)
       /\ IF out.raised # "None"
          THEN /\ rt_pc' = "raised"
               /\ rt_at' = "resolve_turn"
               /\ UNCHANGED rt_result
          ELSE /\ rt_pc' = "resolved"
               /\ rt_result' = out.result
               /\ UNCHANGED rt_at
  /\ UNCHANGED <<rt_state, rt_turn_id, rt_get, rt_fb>>
  /\ UNCHANGED <<arb_vars, llm_vars, engine_vars, drv_vars>>

\* self.db.save_turn(turn_result, inputs_for_log), then one receive_feedback
\* coroutine per driver.
RtSave ==
  /\ rt_pc = "resolved"
  /\ \E fault \in SaveFaults :
     \E saved \in {save_turn(turn_logs, events_table, rt_result, rt_inputs, fault)} :
       /\ turn_logs' = saved.turn_logs
       /\ events_table' = saved.events_table
       /\ IF saved.raised # "None"
          THEN /\ rt_pc' = "raised"
               /\ rt_at' = "save_turn"
               /\ UNCHANGED rt_fb
          ELSE /\ rt_pc' = "gather_feedback"
               /\ rt_fb' = FeedbackCoros(drivers, rt_result)
               /\ UNCHANGED rt_at
  /\ UNCHANGED <<rt_state, rt_turn_id, rt_get, rt_inputs, rt_result>>
  /\ UNCHANGED <<arbitrator_type, simulation_id, uuid_count, simulations, drivers,
                 tasks, steps, calls, arb_vars, llm_vars, drv_vars>>

\* The event loop runs receive_feedback coroutine i up to its await; the
\* coroutines of a gather that has raised go on.
RtFeedbackRun(i) ==
  /\ rt_fb[i].out = Pending
  /\ rt_fb' = [rt_fb EXCEPT ![i].out = Running]
  /\ UNCHANGED <<rt_pc, rt_at, rt_state, rt_turn_id, rt_get, rt_inputs, rt_result>>
  /\ UNCHANGED <<arb_vars, llm_vars, engine_vars, drv_vars>>

\* receive_feedback coroutine i returns or raises.
RtFeedbackEnd(i) ==
  /\ rt_fb[i].out = Running
  /\ \E out \in FeedbackOutcomes(rt_fb[i].kind) :
       rt_fb' = [rt_fb EXCEPT ![i].out = out]
  /\ UNCHANGED <<rt_pc, rt_at, rt_state, rt_turn_id, rt_get, rt_inputs, rt_result>>
  /\ UNCHANGED <<arb_vars, llm_vars, engine_vars, drv_vars>>

\* The second gather, without return_exceptions, raises the exception of a
\* coroutine as soon as there is one.
RtRaise ==
  /\ rt_pc = "gather_feedback"
  /\ \E i \in 1..Len(rt_fb) : rt_fb[i].out = Exc
  /\ rt_pc' = "raised"
  /\ rt_at' = "receive_feedback"
  /\ UNCHANGED <<rt_state, rt_turn_id, rt_get, rt_inputs, rt_result, rt_fb>>
  /\ UNCHANGED <<arb_vars, llm_vars, engine_vars, drv_vars>>

\* The second gather hands back, run_turn returns turn_result.
RtReturn ==
  /\ rt_pc = "gather_feedback"
  /\ \A i \in 1..Len(rt_fb) : rt_fb[i].out = OkNone
  /\ rt_pc' = "returned"
  /\ UNCHANGED <<rt_at, rt_state, rt_turn_id, rt_get, rt_inputs, rt_result, rt_fb>>
  /\ UNCHANGED <<arb_vars, llm_vars, engine_vars, drv_vars>>

NextTurn ==
  \/ RtBegin
  \/ \E i \in 1..Len(rt_get) : RtGetActionRun(i)
  \/ \E i \in 1..Len(rt_get) : RtGetActionEnd(i)
  \/ RtResolve
  \/ RtSave
  \/ \E i \in 1..Len(rt_fb) : RtFeedbackRun(i)
  \/ \E i \in 1..Len(rt_fb) : RtFeedbackEnd(i)
  \/ RtRaise
  \/ RtReturn

SpecTurn == InitTurn /\ [][NextTurn]_vars

(***************************************************************************)
(* Vocabulary of the claims about the deterministic arbitrator.            *)
(***************************************************************************)
ArbResolved == arb_phase = "resolved"

EntityIds(state) == {state.entities[i].id : i \in 1..Len(state.entities)}

\* The entity with that id in a state whose ids are unique.
EntityOf(state, id) == state.entities[FirstIndex(state.entities, id)]

\* The inventory attribute of an entity of the state, as a set; empty when
\* the entity or the attribute is absent.
InventoryOf(state, id) ==
  IF id \in EntityIds(state) /\ "inventario" \in DOMAIN EntityOf(state, id).attributes
  THEN Range(EntityOf(state, id).attributes.inventario)
  ELSE {}

\* The agents with a TAKE on target t among the actions, as a sequence.
Requesters(actions, t) == TakeAgents(actions, t)

\* The targets of the TAKE actions that resolve to an entity of the state.
LiveTargets(state, actions) ==
  {a.target_id : a \in {x \in Range(actions) : x.action_type = "TAKE"}}
    \cap EntityIds(state)

\* The number of TAKE actions of agent r on a target that exists.
LiveTakesBy(state, actions, r) ==
  Cardinality({i \in 1..Len(actions) :
                 /\ actions[i].action_type = "TAKE"
                 /\ actions[i].agent_id = r
                 /\ actions[i].target_id \in EntityIds(state)})

\* r is an entity of the state, no TAKE of the turn targets r, and r has no
\* other TAKE on an existing target.
SoleUntouchedTaker(state, actions, r) ==
  /\ r \in EntityIds(state)
  /\ r \notin LiveTargets(state, actions)
  /\ LiveTakesBy(state, actions, r) = 1

\* The names a narrative line interpolates.
LineNames(line) ==
  IF line[1] = "conflicto" THEN Range(line[2]) \cup {line[3], line[4]}
  ELSE IF line[1] = "grita" THEN {line[2]}
  ELSE {line[i] : i \in 2..Len(line)}

NarrativeNames(narrative) ==
  UNION {LineNames(narrative[i]) : i \in 1..Len(narrative)}

(***************************************************************************)
(* C2.  Applying the changes of the returned TurnResult, in listed order,  *)
(* to the pre-turn state (DELETE removes the entity with that id, UPDATE   *)
(* replaces the attribute map of the entity with value_new) yields exactly *)
(* the world_state of that TurnResult.                                     *)
(***************************************************************************)
RECURSIVE ReplayChanges(_, _)
ReplayChanges(entities, changes) ==
  IF changes = <<>> THEN entities
  ELSE LET c == Head(changes)
           after ==
             IF c.action = "DELETE"
               THEN SelectSeq(entities, LAMBDA e : e.id # c.entity_id)
             ELSE IF c.action = "UPDATE"
               THEN [i \in 1..Len(entities) |->
                       IF entities[i].id = c.entity_id
                       THEN [entities[i] EXCEPT !.attributes = c.value_new]
                       ELSE entities[i]]
             ELSE entities
       IN  ReplayChanges(after, Tail(changes))

C2_ChangesReplayToWorldState ==
  ArbResolved =>
    [arb_state EXCEPT !.entities = ReplayChanges(arb_state.entities, arb_result.changes)]
      = arb_result.world_state

C2_Witness ==
  /\ ArbResolved
  /\ \E i, j \in 1..Len(arb_result.changes) :
       /\ arb_result.changes[i].action = "DELETE"
       /\ arb_result.changes[j].action = "UPDATE"
  /\ arb_result.world_state # arb_state

(***************************************************************************)
(* C3.  As claimed: whenever exactly one action of the turn is a TAKE on a *)
(* target that exists in the pre-turn state, the target is absent from the *)
(* resulting state and its id is in the inventory of the requester in the  *)
(* resulting state, whatever the other actions are.                        *)
(***************************************************************************)
C3_AsClaimed ==
  ArbResolved =>
    \A t \in LiveTargets(arb_state, arb_actions) :
      Len(Requesters(arb_actions, t)) = 1 =>
        /\ t \notin EntityIds(arb_result.world_state)
        /\ t \in InventoryOf(arb_result.world_state, Requesters(arb_actions, t)[1])

(***************************************************************************)
(* C3, amended.  The same, provided the requester is an entity of the      *)
(* pre-turn state, no TAKE of the turn targets the requester, and the      *)
(* requester has no other TAKE on an existing target in the turn.          *)
(***************************************************************************)
C3_SingleTakeSucceeds ==
  ArbResolved =>
    \A t \in LiveTargets(arb_state, arb_actions) :
      (/\ Len(Requesters(arb_actions, t)) = 1
       /\ SoleUntouchedTaker(arb_state, arb_actions, Requesters(arb_actions, t)[1]))
      =>
        /\ t \notin EntityIds(arb_result.world_state)
        /\ t \in InventoryOf(arb_result.world_state, Requesters(arb_actions, t)[1])

C3_Witness ==
  /\ ArbResolved
  /\ Len(arb_actions) = 3
  /\ Len(Requesters(arb_actions, "sword")) = 1
  /\ SoleUntouchedTaker(arb_state, arb_actions, Requesters(arb_actions, "sword")[1])
  /\ Cardinality(Range(Requesters(arb_actions, "shield"))) = 2
  /\ "sword" \in InventoryOf(arb_result.world_state, Requesters(arb_actions, "sword")[1])

(***************************************************************************)
(* C4.  As claimed: when two or more TAKE actions of the turn have the     *)
(* same existing target, exactly one requester wins: the target is         *)
(* removed, only the inventory of the winner gains the target id, the      *)
(* events hold conflict_occurred and exactly one took tag for the target,  *)
(* the narrative names every loser, and no change and no event refers to a *)
(* loser.                                                                  *)
(***************************************************************************)
TookTags(events, t) == {i \in 1..Len(events) : Len(events[i]) = 3 /\ events[i][3] = t}

ConflictOutcome(t) ==
  LET reqs == Range(Requesters(arb_actions, t))
      res == arb_result
      ws == res.world_state
      tags == TookTags(res.events, t)
  IN  /\ Cardinality(tags) = 1
      /\ \A i \in tags :
           LET w == res.events[i][1]
               losers == reqs \ {w}
           IN  /\ w \in reqs
               /\ t \notin EntityIds(ws)
               /\ t \in InventoryOf(ws, w)
               /\ \A e \in EntityIds(ws) \ {w} : t \notin InventoryOf(ws, e)
               /\ <<"conflict_occurred">> \in Range(res.events)
               /\ \A l \in losers :
                    /\ \E k \in 1..Len(res.narrative) :
                         /\ res.narrative[k][1] = "conflicto"
                         /\ res.narrative[k][4] = EntityOf(arb_state, t).name
                         /\ AgentName(arb_state, l) \in Range(res.narrative[k][2])
                    /\ \A k \in 1..Len(res.changes) : res.changes[k].entity_id # l
                    /\ \A k \in 1..Len(res.events) : l \notin Range(res.events[k])

C4_AsClaimed ==
  ArbResolved =>
    \A t \in LiveTargets(arb_state, arb_actions) :
      Cardinality(Range(Requesters(arb_actions, t))) >= 2 => ConflictOutcome(t)

(***************************************************************************)
(* C4, amended.  The same, provided every requester of the target is an    *)
(* entity of the pre-turn state, is not itself the target of a TAKE of the *)
(* turn and has no other TAKE on an existing target in the turn.           *)
(***************************************************************************)
C4_ConflictHasOneWinner ==
  ArbResolved =>
    \A t \in LiveTargets(arb_state, arb_actions) :
      (/\ Len(Requesters(arb_actions, t)) >= 2
       /\ \A r \in Range(Requesters(arb_actions, t)) :
            SoleUntouchedTaker(arb_state, arb_actions, r))
      => ConflictOutcome(t)

C4_Witness ==
  /\ ArbResolved
  /\ Len(Requesters(arb_actions, "sword")) = 3
  /\ \A r \in Range(Requesters(arb_actions, "sword")) :
       SoleUntouchedTaker(arb_state, arb_actions, r)
  /\ <<"B", "took", "sword">> \in Range(arb_result.events)
  /\ "sword" \in InventoryOf(arb_result.world_state, "B")

(***************************************************************************)
(* C5.  A TAKE whose target id is no entity of the pre-turn state (None    *)
(* included), with one or with several requesters, contributes no change,  *)
(* no event and no narrative line, and the result of the turn is the one   *)
(* the other actions alone would have had.                                 *)
(***************************************************************************)
UnresolvedTake(state, a) ==
  a.action_type = "TAKE" /\ a.target_id \notin EntityIds(state)

DeadTargets(state, actions) ==
  {a.target_id : a \in {x \in Range(actions) : UnresolvedTake(state, x)}}

C5_UnresolvedTakeIsSilent ==
  ArbResolved =>
    /\ \A t \in DeadTargets(arb_state, arb_actions) :
         /\ \A k \in 1..Len(arb_result.changes) : arb_result.changes[k].entity_id # t
         /\ \A k \in 1..Len(arb_result.events) : t \notin Range(arb_result.events[k])
         /\ t \notin NarrativeNames(arb_result.narrative)
    /\ arb_result =
         resolve_turn(arb_state,
                      SelectSeq(arb_actions, LAMBDA a : ~UnresolvedTake(arb_state, a)),
                      arb_result.turn_id, arb_result.simulation_id, arb_pick)

C5_Witness ==
  /\ ArbResolved
  /\ Cardinality(Range(Requesters(arb_actions, "ghost"))) = 2
  /\ Len(Requesters(arb_actions, "sword")) = 1
  /\ Len(arb_result.changes) = 2
  /\ Len(arb_result.events) = 1

(***************************************************************************)
(* C6.  As claimed: in the state with agents A and B (A holding nothing)   *)
(* and the item sword, when A and B both TAKE sword and the draw selects   *)
(* A, changes = [DELETE sword, UPDATE A attributes with inventory          *)
(* [sword]], events = [conflict_occurred, A_took_sword] in that order, the *)
(* resulting state has no sword and the inventory of A holds sword.        *)
(***************************************************************************)
TakeSwordBy(a) == AgentAction(a, "TAKE", "sword", <<>>)

C6_Scenario ==
  /\ ArbResolved
  /\ arb_actions \in {<<TakeSwordBy("A"), TakeSwordBy("B")>>,
                      <<TakeSwordBy("B"), TakeSwordBy("A")>>}
  /\ Requesters(arb_actions, "sword")[arb_pick["sword"]] = "A"
  /\ InventoryOf(arb_state, "A") = {}

C6_ChangesAndState ==
  /\ Len(arb_result.changes) = 2
  /\ arb_result.changes[1] = WorldChange("DELETE", "sword", "None", NoneVal, NoneVal)
  /\ arb_result.changes[2].action = "UPDATE"
  /\ arb_result.changes[2].entity_id = "A"
  /\ arb_result.changes[2].attribute = "attributes"
  /\ arb_result.changes[2].value_new.inventario = <<"sword">>
  /\ "sword" \notin EntityIds(arb_result.world_state)
  /\ EntityOf(arb_result.world_state, "A").attributes.inventario = <<"sword">>

C6_AsClaimed ==
  C6_Scenario =>
    /\ C6_ChangesAndState
    /\ arb_result.events = << <<"conflict_occurred">>, <<"A", "took", "sword">> >>

(***************************************************************************)
(* C6, amended.  The same scenario, with the events equal to the list      *)
(* [A_took_sword, conflict_occurred] in that order.                        *)
(***************************************************************************)
C6_ConflictScenario ==
  C6_Scenario =>
    /\ C6_ChangesAndState
    /\ arb_result.events = << <<"A", "took", "sword">>, <<"conflict_occurred">> >>

C6_Witness ==
  /\ C6_Scenario
  /\ Len(arb_state.entities) = 4
  /\ "inventario" \notin DOMAIN EntityOf(arb_state, "A").attributes
  /\ arb_pick["sword"] = 2

(***************************************************************************)
(* C9.  When the formatting reply, its code fences stripped, is no JSON    *)
(* document, LLMArbitrator.resolve_turn raises nothing and returns a       *)
(* TurnResult with events exactly [error_ai], no changes, the input state  *)
(* as world_state, and the turn id and simulation id passed in.            *)
(***************************************************************************)
LlmResolved == llm_phase = "resolved"

Unparseable(reply) == ~JsonLoads(CleanJson(reply)).ok

C9_MalformedReplyDegrades ==
  (LlmResolved /\ Unparseable(llm_reply)) =>
    /\ llm_out.raised = "None"
    /\ llm_out.result.events = << <<"error_ai">> >>
    /\ llm_out.result.changes = <<>>
    /\ llm_out.result.world_state = llm_state
    /\ llm_out.result.turn_id = 1
    /\ llm_out.result.simulation_id = ArbSimId

C9_Witness ==
  /\ LlmResolved
  /\ Len(llm_reply) = 3
  /\ llm_reply[1] = FenceJson
  /\ llm_reply[2] = Garbage
  /\ llm_reply[3] = Fence
  /\ llm_out.result.events = << <<"error_ai">> >>
(***************************************************************************)
(* Vocabulary of the claims about the engine.                              *)
(***************************************************************************)
LogSimIds == {turn_logs[i].simulation_id : i \in 1..Len(turn_logs)}
LogRows(sim) == {i \in 1..Len(turn_logs) : turn_logs[i].simulation_id = sim}
LogTurnIds(sim) == {turn_logs[i].turn_id : i \in LogRows(sim)}
OkIndexes(results) == {i \in 1..Len(results) : results[i].st = "ok"}

\* C1, as the spec states it: the turn ids on record for a simulation id
\* are exactly 0..k for some k, each of them once.
C1_AsClaimed ==
  \A sim \in LogSimIds :
    /\ \E k \in 0..MaxCalls : LogTurnIds(sim) = 0..k
    /\ Cardinality(LogRows(sim)) = Cardinality(LogTurnIds(sim))

\* C7: the step of run_turn that follows the first gather, whatever
\* drivers raised in get_action.  When it goes on to the feedback, the
\* actions handed to the arbitrator are the actions of the drivers that
\* returned one, in the order of the drivers, no action is of a driver that
\* raised, the result is what the arbitrator makes of these actions, and
\* the turn log has grown by one row, the row of this turn.  When it raises,
\* the exception is of the reasoning-backed arbitrator, of a row already
\* on record under the same key or of the database, never of a driver.
C7_FailedDriversAreLeftOut ==
  [][\A t \in 1..MaxTasks :
       tasks[t].pc = "collect" =>
         /\ tasks'[t].pc \in {"feedback", "raised"}
              => tasks'[t].at # "get_action"
         /\ tasks'[t].pc = "feedback" =>
              LET now == tasks'[t]
                  ok == OkIndexes(now.results)
                  failed == (1..Len(now.results)) \ ok
                  row == turn_logs'[Len(turn_logs')]
              IN  /\ Len(now.results) = Len(tasks[t].coros)
                  /\ Len(now.agent_actions) = Cardinality(ok)
                  /\ \A i \in ok :
                       now.agent_actions[Cardinality({k \in ok : k <= i})]
                         = now.results[i].action
                  /\ \A i \in failed : \A j \in 1..Len(now.agent_actions) :
                       now.agent_actions[j].agent_id # tasks[t].coros[i].key
                  /\ arbitrator_type = "mock" =>
                       \E pick \in Picks(now.agent_actions) :
                         now.turn_result =
                           resolve_turn(tasks[t].state, now.agent_actions,
                                        tasks[t].turn_id, simulation_id, pick)
                  /\ Len(turn_logs') = Len(turn_logs) + 1
                  /\ SubSeq(turn_logs', 1, Len(turn_logs)) = turn_logs
                  /\ row.turn_id = tasks[t].turn_id
                  /\ row.simulation_id = simulation_id
                  /\ \A i \in failed : \A j \in 1..Len(row.agents_inputs) :
                       row.agents_inputs[j].key # tasks[t].coros[i].key
         /\ tasks'[t].pc = "raised" =>
              \/ arbitrator_type = "llm" /\ tasks'[t].at = "resolve_turn"
              \/ /\ tasks'[t].at = "save_turn"
                 /\ tasks'[t].err = "IntegrityError"
                 /\ \E i \in 1..Len(turn_logs) :
                      /\ turn_logs[i].turn_id = tasks[t].turn_id
                      /\ turn_logs[i].simulation_id = simulation_id
              \/ /\ tasks'[t].at = "save_turn"
                 /\ tasks'[t].err = "OperationalError"
    ]_vars

\* A call has gone on to the feedback after one driver raised in get_action
\* and another returned an action; and a call has, after all of them raised.
C7_Witness ==
  \E t \in 1..MaxTasks :
    /\ tasks[t].pc = "feedback"
    /\ \E i, j \in 1..Len(tasks[t].results) :
         tasks[t].results[i] = Exc /\ tasks[t].results[j].st = "ok"
    /\ Len(tasks[t].agent_actions) = 1
    /\ \E r \in LogRows(tasks[t].saved_as) :
         turn_logs[r].turn_id = tasks[t].turn_id

\* C8, as the spec states it: no run_turn call raises out of the feedback
\* of its drivers, and no run_steps call is ended by it.
C8_AsClaimed ==
  \A t \in 1..MaxTasks :
    ~(tasks[t].pc = "raised" /\ tasks[t].at = "receive_feedback")

\* C10, as the spec states it: with the reasoning-backed arbitrator no
\* run_turn call raises out of the resolution of the turn, whatever the
\* formatting reply is.
C10_AsClaimed ==
  arbitrator_type = "llm" =>
    \A t \in 1..MaxTasks :
      ~(tasks[t].pc = "raised" /\ tasks[t].at = "resolve_turn")

\* C11, as the spec states it: a turn N >= 1 that has been recorded was
\* resolved from the world_state of the record of turn N-1 of the same
\* simulation.
C11_AsClaimed ==
  \A t \in 1..MaxTasks :
    (tasks[t].pc = "feedback" /\ tasks[t].turn_id >= 1) =>
      \E r \in LogRows(tasks[t].saved_as) :
        /\ turn_logs[r].turn_id = tasks[t].turn_id - 1
        /\ WorldStateFromJson(turn_logs[r].world_state) = tasks[t].state

\* C12, as the spec states it: when resolve_turn of the deterministic
\* arbitrator returns, its input state, the entities, the attribute maps
\* and the inventory lists in it are what they were at the call.
C12_AsClaimed == ArbResolved => arb_after = arb_state

\* C13: a run_turn call made while no simulation has been initialized
\* raises ValueError at its check of simulation_id: it makes no coroutine of
\* a driver, never reaches the arbitrator, and leaves the turn log and the
\* event index as they were, empty.
C13_UninitializedRunTurnFails ==
  [][\A t \in 1..MaxTasks :
       (simulation_id = 0 /\ tasks'[t] # tasks[t]) =>
         /\ tasks'[t].pc = "raised"
         /\ tasks'[t].err = "ValueError"
         /\ tasks'[t].at = "simulation_id"
         /\ tasks'[t].coros = <<>>
         /\ tasks'[t].turn_result = NoneVal
         /\ turn_logs' = turn_logs /\ turn_logs' = <<>>
         /\ events_table' = events_table
         /\ drivers' = drivers
    ]_vars

C13_Witness ==
  /\ simulation_id = 0
  /\ turn_logs = <<>>
  /\ \E t \in 1..MaxTasks :
       tasks[t].pc = "raised" /\ tasks[t].err = "ValueError"

SaveRaised(t) ==
  tasks[t].pc = "collect" /\ tasks'[t].pc = "raised" /\ tasks'[t].at = "save_turn"

C15_AsClaimed ==
  [][\A t \in 1..MaxTasks :
       SaveRaised(t) =>
         /\ \A r \in LogRows(simulation_id)' :
              turn_logs'[r].turn_id # tasks[t].turn_id
         /\ \A e \in 1..Len(events_table') :
              ~(/\ events_table'[e].simulation_id = simulation_id
                /\ events_table'[e].turn_id = tasks[t].turn_id)
         /\ load_last_state(turn_logs', simulation_id) = tasks[t].state
         /\ get_next_turn_id(turn_logs', simulation_id) = tasks[t].turn_id
    ]_vars

\* C15: when save_turn raises in a run_turn call, whether on a record
\* already filed under the same key or on a failure of the database at any
\* of its inserts, the call leaves the turn log and the event index exactly
\* as they were: the latest persisted state and the next turn id that a
\* later run_turn reads from the log are what they were before the save.
C15_FailedSaveLeavesNoTrace ==
  [][\A t \in 1..MaxTasks :
       SaveRaised(t) =>
         /\ turn_logs' = turn_logs
         /\ events_table' = events_table
         /\ load_last_state(turn_logs', simulation_id')
              = load_last_state(turn_logs, simulation_id)
         /\ get_next_turn_id(turn_logs', simulation_id')
              = get_next_turn_id(turn_logs, simulation_id)
    ]_vars

\* A call has ended on a failure of the database in save_turn, and the next
\* turn id is still the first one after turn 0.
C15_Witness ==
  /\ \E t \in 1..MaxTasks :
       /\ tasks[t].pc = "raised"
       /\ tasks[t].at = "save_turn"
       /\ tasks[t].err = "OperationalError"
  /\ simulation_id # 0
  /\ get_next_turn_id(turn_logs, simulation_id) = 1
  /\ Len(events_table) = 1

\* C16: run_steps(n) has at any time one run_turn call at most, its own;
\* the turn it awaits has been persisted when its feedback is awaited; a
\* turn of the loop starts when run_steps is called or when the turn before
\* it has been persisted and its feedback has been delivered, not before;
\* and when run_steps returns, it has run n turns and each of them has
\* added its record to the log.
C16_StepsRunInSequence ==
  [][/\ steps'.status = "running" =>
          /\ tasks'[steps'.slot].caller = "steps"
          /\ steps'.left \in 1..steps'.n
          /\ tasks'[steps'.slot].pc \in {"collect", "feedback"}
          /\ tasks'[steps'.slot].pc = "collect" =>
               steps'.saved = steps'.n - steps'.left
          /\ tasks'[steps'.slot].pc = "feedback" =>
               steps'.saved = steps'.n - steps'.left + 1
     /\ steps'.status = "done" =>
          /\ steps'.left = 0
          /\ steps'.saved = steps'.n
     /\ (steps.status = "running" /\ steps'.status = "done") =>
          tasks'[steps'.slot].pc = "returned"
     /\ (steps.status = "running" /\ steps'.left < steps.left) =>
          /\ steps'.left = steps.left - 1
          /\ tasks[steps.slot].pc = "feedback"
          /\ steps.saved = steps.n - steps.left + 1
          /\ \E r \in 1..Len(turn_logs) :
               /\ turn_logs[r].turn_id = tasks[steps.slot].turn_id
               /\ turn_logs[r].simulation_id = tasks[steps.slot].saved_as
     /\ steps'.saved > steps.saved =>
          /\ steps'.saved = steps.saved + 1
          /\ Len(turn_logs') = Len(turn_logs) + 1
    ]_vars

\* run_steps(2) has returned.
C16_Witness ==
  steps.status = "done" /\ steps.n = 2 /\ steps.saved = 2 /\ Len(turn_logs) >= 3

(***************************************************************************)
(* C17 and C20: the agents of a state and the kinds of their drivers.      *)
(***************************************************************************)
\* The agents of the state that declare a driver of no known kind.
UnknownKindAgents(state) ==
  {state.entities[i].id :
     i \in {j \in 1..Len(state.entities) :
              /\ state.entities[j].type = "agent"
              /\ state.entities[j].driver \notin KnownDrivers \cup {"None", ""}}}

\* The agents of the state that declare a driver of a known kind.
DrivenAgents(state) ==
  {state.entities[i].id :
     i \in {j \in 1..Len(state.entities) :
              /\ state.entities[j].type = "agent"
              /\ state.entities[j].driver \in KnownDrivers}}

DictKeys(dict) == {dict[i].key : i \in 1..Len(dict)}

\* C17, as the spec states it: in a turn, an agent of the pre-turn state
\* whose driver kind is unknown has no get_action coroutine and no action
\* among those handed to the arbitrator, while the agents of a known kind
\* have their coroutine.
C17_AsClaimed ==
  \A t \in 1..MaxTasks :
    tasks[t].pc = "feedback" =>
      /\ \A a \in UnknownKindAgents(tasks[t].state) :
           /\ a \notin DictKeys(tasks[t].coros)
           /\ \A j \in 1..Len(tasks[t].agent_actions) :
                tasks[t].agent_actions[j].agent_id # a
      /\ DrivenAgents(tasks[t].state) \subseteq DictKeys(tasks[t].coros)

\* C20, as the spec states it: every action handed to the arbitrator in a
\* turn is of an agent of the pre-turn state that declares a driver of a
\* known kind, and no two of them are of the same agent.
C20_AsClaimed ==
  \A t \in 1..MaxTasks :
    tasks[t].pc = "feedback" =>
      /\ \A j \in 1..Len(tasks[t].agent_actions) :
           tasks[t].agent_actions[j].agent_id \in DrivenAgents(tasks[t].state)
      /\ \A j, k \in 1..Len(tasks[t].agent_actions) :
           tasks[t].agent_actions[j].agent_id = tasks[t].agent_actions[k].agent_id
             => j = k

(***************************************************************************)
(* C18 and C19: the drivers on their own.                                  *)
(***************************************************************************)
\* C18: the k-th get_action call of a ScriptedDriver with a script of length
\* L returns the k-th action of the script when k <= L and a WAIT action of
\* the driver's own agent when k > L; no call fails; the cursor is the
\* number of calls so far, L at most.
C18_ScriptedFollowsScript ==
  drv_kind = "scripted" =>
    /\ scr_step <= Len(scr_script)
    /\ scr_step = IF Len(scr_returned) <= Len(scr_script)
                  THEN Len(scr_returned) ELSE Len(scr_script)
    /\ \A k \in 1..Len(scr_returned) :
         scr_returned[k] =
           IF k <= Len(scr_script)
           THEN Ok(scr_script[k])
           ELSE Ok(AgentAction(scr_agent_id, "WAIT", NoTarget, <<>>))

\* A script of two different actions of another agent, gone through and
\* called twice more.
C18_Witness ==
  /\ drv_kind = "scripted"
  /\ Len(scr_script) = 2
  /\ scr_script[1] # scr_script[2]
  /\ scr_script[1].agent_id # scr_agent_id
  /\ Len(scr_returned) = 4
  /\ scr_step = 2

\* The action a JSON object of a responses file stands for: the keys it
\* leaves out are WAIT, no target and an empty payload.
CannedAction(agent_id, entry) ==
  AgentAction(agent_id,
              IF entry.action_type = Absent THEN "WAIT" ELSE entry.action_type.v,
              IF entry.target_id = Absent THEN NoTarget ELSE entry.target_id.v,
              IF entry.payload = Absent THEN <<>> ELSE entry.payload.v)

\* Every value of the responses file is a JSON object, none is null.
AllCanned ==
  \A key \in StaticKeys : sta_responses[key] # Present(NoneVal)

\* C19, as the spec states it: the counter is the number of calls, and the
\* k-th call returns the action stored under key k whenever that key is
\* present, else the action stored under default when that key is present,
\* else WAIT with a diagnostic reason.  Stated of the responses files whose
\* values are all JSON objects.
C19_AsClaimed ==
  (drv_kind = "static" /\ AllCanned) =>
    /\ sta_current_turn = Len(sta_returned)
    /\ \A k \in 1..Len(sta_returned) :
         sta_returned[k] =
           IF Str(k) \in StaticKeys /\ sta_responses[Str(k)] # Absent
           THEN Ok(CannedAction(sta_agent_id, sta_responses[Str(k)].v))
           ELSE IF sta_responses["default"] # Absent
           THEN Ok(CannedAction(sta_agent_id, sta_responses["default"].v))
           ELSE Ok(AgentAction(sta_agent_id, "WAIT", NoTarget,
                               [reason |-> <<"No script logic">>]))

(***************************************************************************)
(* C21 to C26.                                                             *)
(***************************************************************************)
\* C21: with the reasoning-backed arbitrator, the result of a turn that has
\* been resolved and saved carries the turn id run_turn computed and the
\* simulation id run_turn passed, not those of the formatting reply, and the
\* turn log holds a record with that turn id and that simulation id.
C21_IdsAreForced ==
  arbitrator_type = "llm" =>
    \A t \in 1..MaxTasks :
      tasks[t].pc = "feedback" =>
        /\ tasks[t].turn_result.turn_id = tasks[t].turn_id
        /\ tasks[t].turn_result.simulation_id = tasks[t].saved_as
        /\ \E r \in LogRows(tasks[t].saved_as) :
             turn_logs[r].turn_id = tasks[t].turn_id

\* A turn resolved from a reply that parses into a valid result and holds
\* the turn id 99.
C21_Witness ==
  /\ arbitrator_type = "llm"
  /\ \E t \in 1..MaxTasks :
       /\ tasks[t].pc = "feedback"
       /\ tasks[t].turn_result.events = LlmEvents
       /\ tasks[t].turn_result.turn_id = tasks[t].turn_id
       /\ tasks[t].turn_id = 2

\* The record of the turn of the run_turn call that is followed.
RtRows ==
  {r \in 1..Len(turn_logs) :
     /\ turn_logs[r].turn_id = rt_turn_id
     /\ turn_logs[r].simulation_id = simulation_id}

RtPersisted == rt_pc # "call" /\ RtRows # {}

\* The arbitrator has been invoked.
RtArbitratorInvoked ==
  \/ rt_pc \in {"resolved", "gather_feedback", "returned"}
  \/ rt_pc = "raised"

\* C22: in one run_turn call, whatever the order and the latency of the
\* coroutines, the arbitrator is invoked only once every get_action
\* coroutine has returned or raised; the record of the turn is in the log
\* only once the arbitrator has returned its result, and it is that result;
\* a receive_feedback coroutine exists only once the record is in the log,
\* and its argument is the result that was saved; every get_action
\* coroutine was made with the state the call loaded.
C22_PhasesInOrder ==
  rt_pc # "None" =>
    /\ RtArbitratorInvoked => \A i \in 1..Len(rt_get) : CoroOver(rt_get[i])
    /\ RtPersisted =>
         /\ rt_result # NoneVal
         /\ \A r \in RtRows :
              /\ turn_logs[r].world_state = model_dump_json(rt_result.world_state)
              /\ turn_logs[r].referee_decision =
                   [narrative |-> rt_result.narrative, changes |-> rt_result.changes]
    /\ \A i \in 1..Len(rt_fb) :
         /\ RtPersisted
         /\ rt_fb[i].seen = rt_result
    /\ \A i \in 1..Len(rt_get) : rt_get[i].seen = rt_state
    /\ rt_pc \in {"gather_actions", "resolved"} => rt_fb = <<>>

\* The call has returned after a turn with two drivers in which one
\* get_action coroutine returned an action and the other raised.
C22_Witness ==
  /\ rt_pc = "returned"
  /\ Len(rt_get) = 2
  /\ rt_get[1].out.st = "ok"
  /\ rt_get[2].out = Exc
  /\ Len(rt_fb) = 2
  /\ RtPersisted

\* C23: the inputs in the record of a turn are the actions handed to the
\* arbitrator in that turn: one entry for every driver that returned an
\* action, under the id of its agent and holding that action, and no entry
\* for a driver that raised or for an agent the engine has no driver for.
C23_InputsAreTheActions ==
  \A t \in 1..MaxTasks :
    tasks[t].pc = "feedback" =>
      \E r \in LogRows(tasks[t].saved_as) :
        LET inputs == turn_logs[r].agents_inputs
            task == tasks[t]
            ok == OkIndexes(task.results)
        IN  /\ turn_logs[r].turn_id = task.turn_id
            /\ Len(inputs) = Cardinality(ok)
            /\ Len(inputs) = Len(task.agent_actions)
            /\ \A i \in ok :
                 \E j \in 1..Len(inputs) :
                   /\ inputs[j].key = task.coros[i].key
                   /\ inputs[j].value = task.results[i].action
                   /\ inputs[j].value \in Range(task.agent_actions)
            /\ \A j \in 1..Len(inputs) :
                 \E i \in ok : inputs[j].key = task.coros[i].key

\* A saved turn of two drivers of which one returned an action and the
\* other raised: the record has the one entry.
C23_Witness ==
  \E t \in 1..MaxTasks :
    /\ tasks[t].pc = "feedback"
    /\ Len(tasks[t].coros) = 2
    /\ tasks[t].results[1] = Exc
    /\ tasks[t].results[2].st = "ok"
    /\ \E r \in LogRows(tasks[t].saved_as) :
         /\ turn_logs[r].turn_id = tasks[t].turn_id
         /\ Len(turn_logs[r].agents_inputs) = 1
         /\ turn_logs[r].agents_inputs[1].key = "B"

\* The attribute map with item_id appended to its inventory list, the list
\* being empty when the map has none.
WithItem(attrs, item_id) ==
  [k \in (DOMAIN attrs) \cup {"inventario"} |->
     IF k = "inventario"
     THEN (IF "inventario" \in DOMAIN attrs THEN attrs.inventario ELSE <<>>)
          \o <<item_id>>
     ELSE attrs[k]]

\* C24, as the spec states it: every UPDATE change in the result of the
\* deterministic arbitrator follows the DELETE of the item taken, its
\* value_previous is the attribute map the requester has in the pre-turn
\* state, and its value_new is that map with the item appended to the
\* inventory.
C24_AsClaimed ==
  ArbResolved =>
    \A i \in 1..Len(arb_result.changes) :
      arb_result.changes[i].action = "UPDATE" =>
        LET change == arb_result.changes[i]
            item_id == arb_result.changes[i - 1].entity_id
            idx == FirstIndex(arb_state.entities, change.entity_id)
            before == arb_state.entities[idx].attributes
        IN  /\ change.value_previous = before
            /\ change.value_new = WithItem(before, item_id)

\* C25, as the spec states it: whenever the engine has a simulation id, the
\* turn log holds the turn-0 record of that simulation, and no run_turn call
\* finds the latest state of its simulation absent.
C25_AsClaimed ==
  /\ simulation_id # 0 => 0 \in LogTurnIds(simulation_id)
  /\ \A t \in 1..MaxTasks :
       ~(tasks[t].pc = "raised" /\ tasks[t].at = "load_last_state")

\* The ids of the entities of a state, in the order of the entities.
StateIds(state) == [i \in 1..Len(state.entities) |-> state.entities[i].id]

\* sub is what is left of seq when some of its elements are taken out.
RECURSIVE IsSubsequence(_, _)
IsSubsequence(sub, seq) ==
  IF sub = <<>> THEN TRUE
  ELSE IF seq = <<>> THEN FALSE
  ELSE IF Head(sub) = Head(seq) THEN IsSubsequence(Tail(sub), Tail(seq))
  ELSE IsSubsequence(sub, Tail(seq))

RowState(r) == WorldStateFromJson(turn_logs[r].world_state)

\* C26, as the spec states it: with the deterministic arbitrator, the
\* entity ids of every state on record are unique, no record holds a CREATE
\* change, the entity ids of the record of turn N are a subsequence of those
\* of the record of turn N-1 of the same simulation, and the room id, turn
\* mode, timeout and environment are the same in every record of a
\* simulation.
C26_AsClaimed ==
  arbitrator_type = "mock" =>
    \A r \in 1..Len(turn_logs) :
      /\ Cardinality(Range(StateIds(RowState(r)))) = Len(StateIds(RowState(r)))
      /\ \A i \in 1..Len(turn_logs[r].referee_decision.changes) :
           turn_logs[r].referee_decision.changes[i].action # "CREATE"
      /\ \A q \in LogRows(turn_logs[r].simulation_id) :
           /\ turn_logs[r].turn_id = turn_logs[q].turn_id + 1
                => IsSubsequence(StateIds(RowState(r)), StateIds(RowState(q)))
           /\ RowState(r).room_id = RowState(q).room_id
           /\ RowState(r).turn_mode = RowState(q).turn_mode
           /\ RowState(r).agent_timeout_seconds = RowState(q).agent_timeout_seconds
           /\ RowState(r).environment = RowState(q).environment

====
